---- MODULE Spec2Model ----
(***************************************************************************)
(* Model of the engineering-activity aggregation core of engg-stats-mcp:   *)
(* the three provider transports (shared/github_client.py,                 *)
(* shared/jira_client.py, shared/confluence_client.py), the error taxonomy *)
(* (shared/errors.py), the paginators, the per-item secondary-fetch loops  *)
(* and the metric computations of the activity servers.                    *)
(*                                                                         *)
(* Optional values (Python None) are sequences: <<>> is None, <<v>> is v.  *)
(***************************************************************************)
EXTENDS Integers, Sequences, FiniteSets, TLC

VARIABLES tr,   \* one invocation of a provider transport (_make_request)
          pg,   \* one run of a paginator (_paginate_search/_paginate_content)
          op,   \* one run of a client or server operation
          fn    \* one application of a pure metric function

vars == <<tr, pg, op, fn>>

None == <<>>
Some(v) == <<v>>

\* A variable that takes no part in the specification being checked.
Off == [pc |-> "off"]

(***************************************************************************)
(* Error taxonomy: shared/errors.py, and the two client-local exception    *)
(* classes of shared/github_client.py and shared/jira_client.py.           *)
(***************************************************************************)

\* The direct base class of every exception class the core raises or catches.
Base(cls) ==
  CASE cls = "errors.MCPServerError"        -> "Exception"
    [] cls = "errors.ConfigurationError"    -> "errors.MCPServerError"
    [] cls = "errors.ValidationError"       -> "errors.MCPServerError"
    [] cls = "errors.APIError"              -> "errors.MCPServerError"
    [] cls = "errors.NetworkError"          -> "errors.MCPServerError"
    [] cls = "errors.TimeoutError"          -> "errors.MCPServerError"
    [] cls = "errors.GitHubAPIError"        -> "errors.APIError"
    [] cls = "errors.JiraAPIError"          -> "errors.APIError"
    [] cls = "errors.ConfluenceAPIError"    -> "errors.APIError"
    [] cls = "errors.RateLimitError"        -> "errors.APIError"
    [] cls = "errors.AuthenticationError"   -> "errors.APIError"
    [] cls = "errors.PermissionError"       -> "errors.APIError"
    [] cls = "errors.NotFoundError"         -> "errors.APIError"
    [] cls = "github_client.GitHubAPIError" -> "Exception"
    [] cls = "jira_client.JiraAPIError"     -> "Exception"
    [] cls = "ValueError"                   -> "Exception"
    [] cls = "TypeError"                    -> "Exception"
    [] cls = "AttributeError"               -> "Exception"
    [] cls = "pydantic.ValidationError"     -> "ValueError"
    [] OTHER                                -> "BaseException"

\* Python's isinstance(e, cls) for an exception of class c: cls is c or one
\* of its bases (the hierarchy is at most four deep).
IsSubclass(c, cls) ==
  \/ c = cls
  \/ Base(c) = cls
  \/ Base(Base(c)) = cls
  \/ Base(Base(Base(c))) = cls
  \/ Base(Base(Base(Base(c)))) = cls

\* An exception object: its class and the attributes the taxonomy gives it.
\* msg_status and msg_body are what the message text itself spells out.
Exc(cls, code, api, status, body, retry, mstatus, mbody) ==
  [cls |-> cls, error_code |-> code, api_name |-> api, status_code |-> status,
   response_body |-> body, retry_after |-> retry,
   msg_status |-> mstatus, msg_body |-> mbody]

NoExc == Exc("none", "none", None, None, None, None, None, None)

IsInstance(e, cls) == e.cls /= "none" /\ IsSubclass(e.cls, cls)

\* An exception of a class with no taxonomy attributes (Exception subclasses
\* defined in the clients, and Python's built-in errors).
PlainExc(cls, mstatus, mbody) ==
  Exc(cls, "none", None, None, None, None, mstatus, mbody)

\* errors.APIError.__init__ and its provider subclasses.
APIError(cls, api, status, body, mstatus) ==
  Exc(cls, "API_ERROR", Some(api), status, body, None, mstatus, None)

\* errors.RateLimitError.__init__: status 429, details.retry_after set.
RateLimitError(api, retry) ==
  Exc("errors.RateLimitError", "API_ERROR", Some(api), Some(429), None,
      retry, None, None)

AuthenticationError(api) ==
  APIError("errors.AuthenticationError", api, Some(401), None, None)

PermissionError(api) ==
  APIError("errors.PermissionError", api, Some(403), None, None)

NotFoundError(api) ==
  APIError("errors.NotFoundError", api, Some(404), None, None)

NetworkError(api) ==
  Exc("errors.NetworkError", "NETWORK_ERROR", Some(api), None, None, None,
      None, None)

(***************************************************************************)
(* HTTP responses as the transports see them.                              *)
(***************************************************************************)

MaxRetryAfter == 2

Statuses == {200, 204, 400, 401, 403, 404, 429, 500}

\* A Retry-After header value: a decimal integer, or text int() rejects.
HeaderValues ==
  [num : {TRUE}, val : 1..MaxRetryAfter] \cup {[num |-> FALSE, val |-> 0]}

Bodies == {"", "boom"}

\* net = TRUE is a connection-level failure (httpx.RequestError): no status.
NetFailure == [net |-> TRUE, status |-> 0, retry_after |-> None, body |-> ""]

Responses ==
  {NetFailure} \cup
  [net : {FALSE}, status : Statuses,
   retry_after : {None} \cup {Some(h) : h \in HeaderValues}, body : Bodies]

\* httpx.Response.is_success
IsSuccess(resp) == resp.status >= 200 /\ resp.status < 300

\* The result of a transport call: the decoded body, or a raised exception.
Returned == [ok |-> TRUE, exc |-> NoExc]
Raised(e) == [ok |-> FALSE, exc |-> e]

\* getattr(response, 'text', None) or str(response): an empty body is falsy.
ResponseText(resp) == IF resp.body = "" THEN "<Response>" ELSE resp.body

\* int(response.headers['retry-after']) guarded by try/except ValueError.
ParseRetryAfter(resp) ==
  IF resp.retry_after = None THEN None
  ELSE IF resp.retry_after[1].num THEN Some(resp.retry_after[1].val)
  ELSE None

\* errors.create_api_error_from_response
CreateApiErrorFromResponse(api, resp) ==
  CASE resp.status = 401 -> AuthenticationError(api)
    [] resp.status = 403 -> PermissionError(api)
    [] resp.status = 404 -> NotFoundError(api)
    [] resp.status = 429 -> RateLimitError(api, ParseRetryAfter(resp))
    [] OTHER -> APIError("errors.APIError", api, Some(resp.status),
                         Some(ResponseText(resp)), Some(resp.status))

\* errors.create_confluence_error: rewraps the base error's message, status
\* and response_body in a ConfluenceAPIError.
CreateConfluenceError(resp) ==
  LET base == CreateApiErrorFromResponse("Confluence", resp)
  IN  APIError("errors.ConfluenceAPIError", "Confluence", base.status_code,
               base.response_body, base.msg_status)

\* GitHubClient._make_request
GitHubMakeRequest(resp) ==
  IF resp.net THEN Raised(PlainExc("github_client.GitHubAPIError", None, None))
  ELSE IF resp.status = 429
    THEN Raised(PlainExc("github_client.GitHubAPIError", None, None))
  ELSE IF ~IsSuccess(resp)
    THEN Raised(PlainExc("github_client.GitHubAPIError",
                         Some(resp.status), Some(resp.body)))
  ELSE Returned

\* JiraClient._make_request
JiraMakeRequest(resp) ==
  IF resp.net THEN Raised(PlainExc("jira_client.JiraAPIError", None, None))
  ELSE IF resp.status = 429
    THEN Raised(PlainExc("jira_client.JiraAPIError", None, None))
  ELSE IF ~IsSuccess(resp)
    THEN Raised(PlainExc("jira_client.JiraAPIError",
                         Some(resp.status), Some(resp.body)))
  ELSE Returned

\* ConfluenceClient._make_request
ConfluenceMakeRequest(resp) ==
  IF resp.net THEN Raised(NetworkError("Confluence"))
  ELSE IF resp.status = 429
    THEN Raised(RateLimitError("Confluence", ParseRetryAfter(resp)))
  ELSE IF ~IsSuccess(resp) THEN Raised(CreateConfluenceError(resp))
  ELSE Returned

MakeRequest(provider, resp) ==
  CASE provider = "GitHub"     -> GitHubMakeRequest(resp)
    [] provider = "Jira"       -> JiraMakeRequest(resp)
    [] provider = "Confluence" -> ConfluenceMakeRequest(resp)

Providers == {"GitHub", "Jira", "Confluence"}

(***************************************************************************)
(* SpecTransport: one transport invocation per step, any provider, any     *)
(* response.                                                               *)
(***************************************************************************)

TransportInit ==
  /\ tr = [pc |-> "idle", provider |-> "GitHub", resp |-> NetFailure,
           out |-> Returned, sent |-> 0]
  /\ pg = Off /\ op = Off /\ fn = Off

\* A transport that would send the request again after a 429.
AttemptsMutant(provider, resp) ==
  IF ~resp.net /\ resp.status = 429 THEN 2 ELSE 1

\* The number of client.request calls one _make_request makes when the
\* provider answers resp: the call is in no loop, and every branch after it
\* returns or raises.
Attempts(provider, resp) == 1

\* One call of provider's _make_request: client.request, then the mapping
\* of its response.
TransportCall(provider) ==
  \E resp \in Responses :
    tr' = [pc |-> "called", provider |-> provider, resp |-> resp,
           out |-> MakeRequest(provider, resp),
           sent |-> Attempts(provider, resp)]

GitHubCall == TransportCall("GitHub") /\ UNCHANGED <<pg, op, fn>>

JiraCall == TransportCall("Jira") /\ UNCHANGED <<pg, op, fn>>

ConfluenceCall == TransportCall("Confluence") /\ UNCHANGED <<pg, op, fn>>

TransportNext == GitHubCall \/ JiraCall \/ ConfluenceCall

SpecTransport == TransportInit /\ [][TransportNext]_vars

\* C4: a 429 response raises a RateLimitError carrying the provider name;
\* with header Retry-After: n (n a positive integer) its retry_after is n,
\* and with no such header its retry_after is None -- for all three
\* provider transports.
RateLimitPropagation ==
  (tr.pc = "called" /\ ~tr.resp.net /\ tr.resp.status = 429) =>
    /\ ~tr.out.ok
    /\ tr.out.exc.cls = "errors.RateLimitError"
    /\ tr.out.exc.api_name = Some(tr.provider)
    /\ tr.out.exc.retry_after = ParseRetryAfter(tr.resp)

\* C20: one invocation of a provider transport issues exactly one HTTP
\* request, whatever the answer; a 429 is not followed by a second attempt.
NoAutomaticRetry ==
  tr.pc = "called" => tr.sent = 1

\* The wiki transport answered a 429 by raising, after one request.
NoAutomaticRetryWitness ==
  /\ tr.pc = "called" /\ tr.provider = "Confluence"
  /\ ~tr.resp.net /\ tr.resp.status = 429
  /\ ~tr.out.ok /\ tr.sent = 1

\* The taxonomy kind the status of a failed response stands for.
KindOfStatus(status) ==
  CASE status = 401 -> "errors.AuthenticationError"
    [] status = 403 -> "errors.PermissionError"
    [] status = 404 -> "errors.NotFoundError"
    [] OTHER        -> "errors.APIError"

\* C5: a non-2xx, non-429 response raises the most specific taxonomy kind
\* for its status (401 Authentication, 403 Permission, 404 NotFound, else
\* generic APIError), carrying the provider name, the status code and the
\* raw response body -- for all three provider transports.
StatusMapping ==
  (tr.pc = "called" /\ ~tr.resp.net /\ ~IsSuccess(tr.resp)
     /\ tr.resp.status /= 429) =>
    /\ ~tr.out.ok
    /\ IsInstance(tr.out.exc, KindOfStatus(tr.resp.status))
    /\ tr.out.exc.api_name = Some(tr.provider)
    /\ tr.out.exc.status_code = Some(tr.resp.status)
    /\ tr.out.exc.response_body = Some(tr.resp.body)

(***************************************************************************)
(* SpecPaginate: GitHubClient._paginate_search and                         *)
(* ConfluenceClient._paginate_content.  The accumulated list is modelled   *)
(* by its length; the provider answers every page request with a failure   *)
(* or with a page of any of the lengths in PageLengths.                    *)
(***************************************************************************)

MaxItems == 205

GitHubMaxPerPage == 100

ConfluencePageLimit == 50

Min(a, b) == IF a < b THEN a ELSE b

CeilDiv(a, b) == IF b = 0 THEN 0 ELSE (a + b - 1) \div b

\* per_page = min(100, max_items) / limit = min(50, max_items)
PerPage(client, max_items) ==
  IF client = "GitHub" THEN Min(GitHubMaxPerPage, max_items)
  ELSE Min(ConfluencePageLimit, max_items)

\* The failed responses the loops are exercised with: a connection failure,
\* a 429 without header, a 429 with Retry-After, a 404 and a 500.
FailureSamples ==
  {NetFailure} \cup
  {r \in Responses :
     /\ r.body = "boom"
     /\ \/ r.status = 429 /\ r.retry_after \in {None, Some([num |-> TRUE, val |-> 1])}
        \/ r.status \in {404, 500} /\ r.retry_after = None}

\* The page lengths a provider may answer a request for per_page items
\* with: empty, short, exactly as asked, or longer than asked.
PageLengths(per_page) ==
  {n \in {0, 1, per_page - 1, per_page, per_page + 1} : n >= 0}

\* A loop that would go on while len(items) <= max_items.
PaginateMutantGuard(items, max_items) == items <= max_items

\* while len(items) < max_items
WhileGuard(items, max_items) == items < max_items

\* A faulty check that would go on after a short page.
StopAfterPageMutant(n, per_page, items, max_items) == items >= max_items

\* if len(page_items) < per_page or len(items) >= max_items: break
StopAfterPage(n, per_page, items, max_items) ==
  n < per_page \/ items >= max_items

\* A loop that would go on after an empty page below the cap.
LoopBreaksMutant(n, per_page, items, max_items) ==
  n > 0 /\ StopAfterPage(n, per_page, items, max_items)

\* The two breaks of the loop body: `if not page_items: break` before the
\* extend, and the short-page / cap check after it.
LoopBreaks(n, per_page, items, max_items) ==
  n = 0 \/ StopAfterPage(n, per_page, items, max_items)

PaginateInit ==
  /\ pg = [pc |-> "idle", client |-> "GitHub", max_items |-> 0, per_page |-> 0,
           items |-> 0, page |-> 0, requests |-> 0, exact |-> TRUE,
           asked |-> 0, got |-> 0, result |-> 0, exc |-> NoExc]
  /\ tr = Off /\ op = Off /\ fn = Off

\* Entry of the paginator: items = [], page = 1 (GitHub) or start = 0
\* (Confluence), per_page/limit computed from the cap.
PaginateCall(client) ==
  /\ pg.pc = "idle"
  /\ \E max_items \in 0..MaxItems :
       pg' = [pg EXCEPT !.pc = "loop", !.client = client,
                        !.max_items = max_items,
                        !.per_page = PerPage(client, max_items),
                        !.page = IF client = "GitHub" THEN 1 ELSE 0]
  /\ UNCHANGED <<tr, op, fn>>

PaginateSearch == PaginateCall("GitHub")

PaginateContent == PaginateCall("Confluence")

\* One iteration of the while loop whose request fails: the exception of
\* _make_request propagates out of the paginator.
PaginateFetchFails ==
  /\ pg.pc = "loop"
  /\ WhileGuard(pg.items, pg.max_items)
  /\ \E resp \in FailureSamples :
       pg' = [pg EXCEPT !.pc = "raised", !.requests = @ + 1,
                        !.asked = pg.per_page,
                        !.exc = MakeRequest(pg.client, resp).exc]
  /\ UNCHANGED <<tr, op, fn>>

\* One iteration of the while loop whose request succeeds with n items:
\* break on an empty page, extend, break on a short page or at the cap,
\* otherwise advance the page marker.  A break falls through to
\* return items[:max_items].
PaginateFetch ==
  /\ pg.pc = "loop"
  /\ WhileGuard(pg.items, pg.max_items)
  /\ \E n \in PageLengths(pg.per_page) :
       LET items == pg.items + n
           stop  == LoopBreaks(n, pg.per_page, items, pg.max_items)
       IN  pg' = [pg EXCEPT
                    !.requests = @ + 1,
                    !.asked = pg.per_page,
                    !.got = n,
                    !.exact = @ /\ n = pg.per_page,
                    !.items = items,
                    !.page = IF stop THEN @
                             ELSE IF pg.client = "GitHub" THEN @ + 1
                             ELSE @ + pg.per_page,
                    !.pc = IF stop THEN "done" ELSE "loop",
                    !.result = IF stop THEN Min(items, pg.max_items) ELSE @]
  /\ UNCHANGED <<tr, op, fn>>

\* The while condition is false: return items[:max_items].
PaginateReturn ==
  /\ pg.pc = "loop"
  /\ ~WhileGuard(pg.items, pg.max_items)
  /\ pg' = [pg EXCEPT !.pc = "done", !.result = Min(pg.items, pg.max_items)]
  /\ UNCHANGED <<tr, op, fn>>

PaginateNext ==
  \/ PaginateSearch
  \/ PaginateContent
  \/ PaginateFetchFails
  \/ PaginateFetch
  \/ PaginateReturn

SpecPaginate == PaginateInit /\ [][PaginateNext]_vars

\* The paginators under a provider that answers every request it is sent,
\* with a page or with a failure, and an event loop that runs a coroutine
\* that is ready.
SpecPaginateLive ==
  /\ PaginateInit /\ [][PaginateNext]_vars
  /\ WF_vars(PaginateFetch \/ PaginateFetchFails)
  /\ WF_vars(PaginateReturn)

\* C30: for every cap >= 0 and every provider that answers each request
\* (with a failure or a page of any length, empty and over-long included)
\* a started paginator eventually returns or raises, the list it returns
\* has at most cap items, and on the way it never issues more than
\* ceil(cap / page_size) requests.
PaginationTerminates ==
  /\ [](pg.pc = "done" => pg.result <= pg.max_items)
  /\ [](pg.requests <= CeilDiv(pg.max_items, pg.per_page))
  /\ (pg.pc = "loop") ~> (pg.pc \in {"done", "raised"})

\* A run of three requests that ended on an over-long page, cut to the cap.
PaginationTerminatesWitness ==
  /\ pg.pc = "done" /\ pg.requests = 3
  /\ pg.got > pg.asked
  /\ pg.items > pg.max_items /\ pg.result = pg.max_items

\* C1: against a provider that returns exactly the requested page size on
\* every page, the paginator issues at most ceil(cap / page_size) requests,
\* and once the accumulated count has reached the cap it has stopped (it is
\* not waiting to issue another request).
PaginationRequestBound ==
  (pg.pc /= "off" /\ pg.exact) =>
    /\ pg.requests <= CeilDiv(pg.max_items, pg.per_page)
    /\ (pg.requests > 0 /\ pg.items >= pg.max_items) => pg.pc = "done"

\* The provider's maximum page size.
ProviderMax(client) ==
  IF client = "GitHub" THEN GitHubMaxPerPage ELSE ConfluencePageLimit

\* The accumulated count when the last request was issued.
ItemsBefore == IF pg.pc = "raised" THEN pg.items ELSE pg.items - pg.got

\* C18: every page request asks for min(provider maximum page size,
\* cap - items accumulated so far) items: the page size shrinks to the
\* remaining cap on the last page.
PageSizeRemainingCap ==
  (pg.pc /= "off" /\ pg.requests > 0) =>
    pg.asked = Min(ProviderMax(pg.client), pg.max_items - ItemsBefore)

\* The first request of a run does ask for min(provider maximum, cap).
PageSizeFirstRequest ==
  (pg.pc /= "off" /\ pg.requests = 1) =>
    pg.asked = Min(ProviderMax(pg.client), pg.max_items)

\* C19: a further page request is issued only if the previous page
\* returned at least the requested number of items and the accumulated
\* count is below the cap; after a short or empty page no request follows.
PaginationStopCondition ==
  [][(pg.pc /= "off" /\ pg.requests > 0 /\ pg'.requests > pg.requests) =>
       (pg.got >= pg.asked /\ pg.got > 0 /\ pg.items < pg.max_items)]_vars

\* A run ended by a short second page below the cap, after a full first
\* page.
PaginationStopConditionWitness ==
  /\ pg.pc = "done" /\ pg.requests = 2
  /\ pg.got > 0 /\ pg.got < pg.asked
  /\ pg.items < pg.max_items
  /\ pg.result = pg.items

\* A two-page run against an exact provider that ended at the cap.
PaginationRequestBoundWitness ==
  /\ pg.pc = "done" /\ pg.exact
  /\ pg.requests >= 2
  /\ pg.requests = CeilDiv(pg.max_items, pg.per_page)
  /\ pg.result = pg.max_items

(***************************************************************************)
(* Dates: shared/date_utils.py and the pydantic input schemas.             *)
(* A date string is modelled by its shape: the digit pattern NNNN-NN-NN    *)
(* with a month and a day field (year 2024), or other text.                *)
(***************************************************************************)

DateStr(m, d) == [fmt |-> "ymd", m |-> m, d |-> d]

TextDate == [fmt |-> "text", m |-> 0, d |-> 0]

\* "2024-01-01", "2024-01-02", "2024-13-01", "2024-02-30", "yesterday"
DateStrings ==
  {DateStr(1, 1), DateStr(1, 2), DateStr(13, 1), DateStr(2, 30), TextDate}

\* Field(pattern=r'^\d{4}-\d{2}-\d{2}$')
PatternOK(s) == s.fmt = "ymd"

DaysInMonth(m) ==
  IF m = 2 THEN 29 ELSE IF m \in {4, 6, 9, 11} THEN 30 ELSE 31

\* The string names a real calendar date in YYYY-MM-DD form.
IsCalendarDate(s) ==
  s.fmt = "ymd" /\ s.m \in 1..12 /\ s.d \in 1..DaysInMonth(s.m)

\* parse_iso_date succeeds (else it raises ValueError).
ParseOK(s) == IsCalendarDate(s)

\* The day number of a parsed date within the year.
DayOf(s) == IF s.m = 1 THEN s.d ELSE 31 + s.d

\* The day the upper bound of a created-date query names.
\* get_date_range_query_string: "created:<from>..<to + 1 day>".
DateRangeUpper(to_date) == DayOf(to_date) + 1

\* The JQL and CQL of the tracker and wiki clients: created <= "<to_date>",
\* the string as given.
RawUpper(to_date) == DayOf(to_date)

Max(a, b) == IF a >= b THEN a ELSE b

\* (datetime.fromisoformat(to_date) - datetime.fromisoformat(from_date)).days
DaysPeriod(from_date, to_date) == DayOf(to_date) - DayOf(from_date)

WeeksPeriodMutant(days_period) == [num |-> days_period, den |-> 7]

\* weeks_period = max(days_period / 7, 1) if days_period >= 0 else 1, kept
\* as a fraction with denominator 7.
WeeksPeriod(days_period) ==
  IF days_period >= 0 THEN [num |-> Max(days_period, 7), den |-> 7]
  ELSE [num |-> 7, den |-> 7]

\* The dates of the weekly-rate check: days of January and February.
RateDates == {DateStr(m, d) : m \in 1..2, d \in {1, 2, 8, 9, 20}}

(***************************************************************************)
(* SpecWeeks: the period computation of the wiki analytics tool for any    *)
(* pair of valid dates.                                                    *)
(***************************************************************************)

WeeksInit ==
  /\ fn = [pc |-> "input", from_date |-> TextDate, to_date |-> TextDate,
           days_period |-> 0, weeks_period |-> [num |-> 7, den |-> 7]]
  /\ tr = Off /\ pg = Off /\ op = Off

ChooseRange ==
  /\ fn.pc = "input"
  /\ \E f \in RateDates, t \in RateDates :
       fn' = [fn EXCEPT !.pc = "chosen", !.from_date = f, !.to_date = t]
  /\ UNCHANGED <<tr, pg, op>>

ComputePeriod ==
  /\ fn.pc = "chosen"
  /\ LET days_period == DaysPeriod(fn.from_date, fn.to_date)
     IN  fn' = [fn EXCEPT !.pc = "computed", !.days_period = days_period,
                          !.weeks_period = WeeksPeriod(days_period)]
  /\ UNCHANGED <<tr, pg, op>>

WeeksNext == ChooseRange \/ ComputePeriod

SpecWeeks == WeeksInit /\ [][WeeksNext]_vars

\* C15: the weekly-rate denominator is max(days_in_range / 7, 1): never
\* below 1 (so never zero), exactly 1 when from = to, and days / 7 when the
\* range is longer than a week.
WeeklyRateDenominator ==
  fn.pc = "computed" =>
    LET w == fn.weeks_period
        days == DayOf(fn.to_date) - DayOf(fn.from_date)
    IN  /\ w.den = 7 /\ w.num >= w.den
        /\ fn.from_date = fn.to_date => w.num = w.den
        /\ days > 7 => w.num = days
        /\ days <= 7 => w.num = 7

\* A range of 50 days (denominator 50/7) has been computed.
WeeklyRateDenominatorWitness ==
  /\ fn.pc = "computed"
  /\ fn.from_date = DateStr(1, 1) /\ fn.to_date = DateStr(2, 20)
  /\ fn.weeks_period = [num |-> 50, den |-> 7]

\* A timestamp on a provider item: a day number, a time of day in half days
\* (0 = midnight, 1 = noon) and whether the text carries a UTC offset
\* ("...Z"), which makes the parsed datetime timezone-aware.
Timestamps == [day : 1..3, half : {0, 1}, aware : BOOLEAN]

\* from_dt <= dt <= to_dt, with from_dt and to_dt the naive midnights parsed
\* from the bare dates. Comparing them with an aware datetime raises
\* TypeError.
CompareRaises(ts) == ts.aware

InRange(from_date, to_date, ts) ==
  /\ 2 * DayOf(from_date) <= 2 * ts.day + ts.half
  /\ 2 * ts.day + ts.half <= 2 * DayOf(to_date)

(***************************************************************************)
(* Operations.  op is the state of one run of a client query or of a       *)
(* server tool; pc is its position, at a network suspension point or at    *)
(* its end ("returned" / "raised").                                        *)
(***************************************************************************)

MaxBatch == 2

\* A review or review comment of a PR, or a comment of a page: whether its
\* author is the subject, and its own timestamp (None when absent).
Notes == [mine : BOOLEAN, at : {None} \cup {Some(t) : t \in Timestamps}]

\* The sub-resource lists a secondary fetch of the operations may return:
\* none, or one note, by the subject or not, without timestamp, or written
\* at the midnight that opens day 1, in the second half of day 2, or with
\* an aware timestamp.  (SpecFilter runs the filters over every list.)
NoteLists ==
  {<<>>} \cup
  {<<n>> : n \in {m \in Notes :
                    \/ m.at = None
                    \/ m.at[1] \in {[day |-> 1, half |-> 0, aware |-> FALSE],
                                    [day |-> 2, half |-> 1, aware |-> FALSE],
                                    [day |-> 1, half |-> 0, aware |-> TRUE]}}}

\* A top-level item of a search result: a PR of the code host (pull_request
\* key present or not, state closed or open) or a wiki page (id present or
\* not).
Items == [keyed : BOOLEAN, closed : BOOLEAN]

RECURSIVE SeqsUpTo(_, _)
SeqsUpTo(S, n) ==
  IF n = 0 THEN {<<>>}
  ELSE LET shorter == SeqsUpTo(S, n - 1)
       IN  shorter \cup {Append(q, x) : q \in {r \in shorter : Len(r) = n - 1}, x \in S}

ItemLists == SeqsUpTo(Items, MaxBatch)

\* Result lists of the searches whose loops read only the key of an item
\* (every loop but the PR detail loop): state is left at "open".
KeyedLists == SeqsUpTo({it \in Items : ~it.closed}, MaxBatch)

OpIdle ==
  [name |-> "none", variant |-> "none", pc |-> "idle",
   from_date |-> TextDate, to_date |-> TextDate,
   requests |-> 0, exc |-> NoExc, origin |-> "none",
   primary_failed |-> FALSE, rate_limited |-> FALSE,
   items |-> <<>>, idx |-> 1, fetched |-> 0, failed |-> 0, skipped |-> 0,
   notes |-> 0,
   prs_authored |-> 0, prs_merged |-> 0, cycle_times |-> <<>>,
   details_failed |-> 0, average_hours |-> None, average_days |-> None,
   reviews_given |-> 0, comments_written |-> 0,
   assigned_issues |-> <<>>, issues_assigned |-> 0, issues_resolved |-> 0,
   reopened_count |-> 0, lead_times |-> <<>>, avg_lead_time_hours |-> None,
   created_pages |-> <<>>, pages_created |-> 0, pages_updated |-> 0,
   created_upper |-> None, period_days |-> None, weeks_period |-> None]

\* The exception a top-level operation finally raises for an exception e
\* reaching its outermost try block.
OuterHandler(name, variant, e) ==
  CASE name \in {"search_reviews_by_user", "get_review_comments_by_user"} -> e
    [] name = "search_comments_by_user" -> e
    [] name = "github_engineer_activity" /\ variant = "server" ->
         IF \/ IsInstance(e, "errors.GitHubAPIError")
            \/ IsInstance(e, "errors.ValidationError")
            \/ IsInstance(e, "errors.ConfigurationError")
         THEN e
         ELSE APIError("errors.GitHubAPIError", "GitHub", None, None, None)
    [] OTHER -> PlainExc("Exception", None, None)

\* The request the operation waits for was answered by resp: a 429 status is
\* remembered (response.status_code == 429 in the three _make_request).
Answered(o, resp) ==
  [o EXCEPT !.requests = @ + 1,
            !.rate_limited = @ \/ (~resp.net /\ resp.status = 429)]

\* The operation ends by raising: e arose at `origin` and passes the
\* operation's outer handler.
Raise(o, e, origin) ==
  [o EXCEPT !.pc = "raised", !.origin = origin,
            !.exc = OuterHandler(o.name, o.variant, e)]

(***************************************************************************)
(* Ticket-tracker metric functions: JiraClient._extract_status_transitions,*)
(* _count_reopened_issues and _calculate_lead_times.                       *)
(***************************************************************************)

MaxHistory == 3

\* A changelog timestamp as the provider renders it: a local wall-clock
\* reading followed by the UTC offset in force ("...T02:10:00.000+0100").
\* The instant it names is the local reading minus the offset.
HistoryDates == [local : 1..2, off : {0, 2}]

Instant(date) == date.local - date.off

\* Python's str comparison of two such texts: the local reading comes first
\* in the text, the offset last.
StrLess(a, b) == a.local < b.local \/ (a.local = b.local /\ a.off < b.off)

StatusNames == {"Done", "Open", "Blocked"}

\* One changelog history with one item: a status change with its `created`
\* text (None when the key is missing), or a change of another field.
Histories ==
  [created : {None} \cup {Some(t) : t \in HistoryDates},
   field : {"status"}, toString : StatusNames]
  \cup {[created |-> None, field |-> "assignee", toString |-> "Open"]}

\* resolved_statuses and active_statuses of _count_reopened_issues.
ResolvedStatuses == {"Done", "Resolved", "Closed", "Fix Released", "Complete"}

ActiveStatuses ==
  {"Open", "In Progress", "To Do", "Reopened", "In Review", "Testing"}

\* _extract_status_transitions: the status items of the histories that have
\* a `created` value, in changelog order.
RECURSIVE ExtractStatusTransitions(_)
ExtractStatusTransitions(histories) ==
  IF histories = <<>> THEN <<>>
  ELSE LET h == Head(histories)
           rest == ExtractStatusTransitions(Tail(histories))
       IN  IF h.created /= None /\ h.field = "status"
           THEN <<[date |-> h.created[1], to_status |-> h.toString]>> \o rest
           ELSE rest

\* Insertion of x into a list sorted by date text, after every element that
\* does not compare greater (the sort is stable).
RECURSIVE InsertByDate(_, _)
InsertByDate(sorted, x) ==
  IF sorted = <<>> THEN <<x>>
  ELSE IF StrLess(x.date, Head(sorted).date) THEN <<x>> \o sorted
  ELSE <<Head(sorted)>> \o InsertByDate(Tail(sorted), x)

\* sorted(transitions, key=lambda x: x["date"])
RECURSIVE SortedByDate(_)
SortedByDate(transitions) ==
  IF transitions = <<>> THEN <<>>
  ELSE InsertByDate(SortedByDate(SubSeq(transitions, 1, Len(transitions) - 1)),
                    transitions[Len(transitions)])

\* The walk over one issue's sorted transitions: 1 when an active status is
\* reached with was_resolved set (then break), else 0.
RECURSIVE WalkTransitions(_, _)
WalkTransitions(sorted, was_resolved) ==
  IF sorted = <<>> THEN 0
  ELSE LET to_status == Head(sorted).to_status
       IN  IF to_status \in ResolvedStatuses
           THEN WalkTransitions(Tail(sorted), TRUE)
           ELSE IF was_resolved /\ to_status \in ActiveStatuses THEN 1
           ELSE WalkTransitions(Tail(sorted), was_resolved)

\* _count_reopened_issues
RECURSIVE CountReopenedIssues(_)
CountReopenedIssues(issues) ==
  IF issues = <<>> THEN 0
  ELSE WalkTransitions(
         SortedByDate(ExtractStatusTransitions(Head(issues).histories)), FALSE)
       + CountReopenedIssues(Tail(issues))

\* _calculate_lead_times: resolved - created in hours for the issues that
\* have both fields, kept when not negative.
RECURSIVE CalculateLeadTimes(_)
CalculateLeadTimes(issues) ==
  IF issues = <<>> THEN <<>>
  ELSE LET f == Head(issues)
           rest == CalculateLeadTimes(Tail(issues))
       IN  IF f.created /= None /\ f.resolutiondate /= None
              /\ f.resolutiondate[1] - f.created[1] >= 0
           THEN <<f.resolutiondate[1] - f.created[1]>> \o rest
           ELSE rest

Issue(histories, created, resolutiondate) ==
  [histories |-> histories, created |-> created,
   resolutiondate |-> resolutiondate]

\* An issue that was resolved and then reopened, resolved five hours after
\* its creation.
ReopenedIssue ==
  Issue(<<[created |-> Some([local |-> 1, off |-> 0]), field |-> "status",
           toString |-> "Done"],
          [created |-> Some([local |-> 2, off |-> 0]), field |-> "status",
           toString |-> "Open"]>>,
        Some(10), Some(15))

(***************************************************************************)
(* SpecReopened: _count_reopened_issues applied to one issue with any      *)
(* changelog of at most MaxHistory histories, alone or after another       *)
(* issue.                                                                  *)
(***************************************************************************)

ReopenedInit ==
  /\ fn = [pc |-> "input", issues |-> <<>>, reopened_count |-> 0]
  /\ tr = Off /\ pg = Off /\ op = Off

ChooseIssues ==
  /\ fn.pc = "input"
  /\ \E histories \in SeqsUpTo(Histories, MaxHistory),
        prefix \in {<<>>, <<ReopenedIssue>>} :
       fn' = [fn EXCEPT !.pc = "chosen",
                        !.issues = prefix \o <<Issue(histories, None, None)>>]
  /\ UNCHANGED <<tr, pg, op>>

CountReopened ==
  /\ fn.pc = "chosen"
  /\ fn' = [fn EXCEPT !.pc = "counted",
                      !.reopened_count = CountReopenedIssues(fn.issues)]
  /\ UNCHANGED <<tr, pg, op>>

ReopenedNext == ChooseIssues \/ CountReopened

SpecReopened == ReopenedInit /\ [][ReopenedNext]_vars

\* The status transitions of the issue under test (the last of the list).
TestedTransitions ==
  ExtractStatusTransitions(fn.issues[Len(fn.issues)].histories)

\* What the issue under test added to the count.
TestedCount == fn.reopened_count - (Len(fn.issues) - 1)

\* C9: an issue adds exactly 1 to the reopened count if some transition into
\* an active-class state occurs at a later instant than a transition into a
\* resolved-class state, and 0 if no transition into an active-class state
\* occurs at the same or a later instant than one into a resolved-class
\* state; it never adds more than 1, and adds 0 when it has no
\* resolved-class transition.  (Two transitions at the same instant have no
\* timestamp order; the claim leaves them open.)
ReopenedDetection ==
  fn.pc = "counted" =>
    LET ts == TestedTransitions
        idx == 1..Len(ts)
        after == \E i \in idx, j \in idx :
                   /\ ts[i].to_status \in ResolvedStatuses
                   /\ ts[j].to_status \in ActiveStatuses
                   /\ Instant(ts[j].date) > Instant(ts[i].date)
        notBefore == \E i \in idx, j \in idx :
                   /\ ts[i].to_status \in ResolvedStatuses
                   /\ ts[j].to_status \in ActiveStatuses
                   /\ Instant(ts[j].date) >= Instant(ts[i].date)
    IN  /\ TestedCount \in {0, 1}
        /\ after => TestedCount = 1
        /\ ~notBefore => TestedCount = 0

\* The reorderings of a changelog.
Reorderings(histories) ==
  {[i \in 1..Len(histories) |-> histories[p[i]]] :
     p \in Permutations(1..Len(histories))}

\* C28: the reopened count of an issue is the same for every permutation of
\* its changelog histories, two transitions with the same timestamp
\* included.
ReopenedOrderIndependent ==
  fn.pc = "counted" =>
    \A histories \in Reorderings(fn.issues[Len(fn.issues)].histories) :
      CountReopenedIssues(<<Issue(histories, None, None)>>) = TestedCount

\* When no two status transitions of the changelog carry the same
\* timestamp text the count does not depend on the changelog order.
ReopenedOrderIndependentDistinct ==
  (fn.pc = "counted"
     /\ \A i \in 1..Len(TestedTransitions), j \in 1..Len(TestedTransitions) :
          i /= j => TestedTransitions[i].date /= TestedTransitions[j].date)
    => ReopenedOrderIndependent

(***************************************************************************)
(* SpecLeadTime: _calculate_lead_times and the average of                  *)
(* jira_engineer_activity for any list of at most MaxIssues resolved       *)
(* issues.                                                                 *)
(***************************************************************************)

MaxIssues == 3

\* fields.created and fields.resolutiondate as hour counts, None when the
\* field is missing.
CreatedHours == {None, Some(0), Some(5)}

ResolvedHours == {None, Some(0), Some(5), Some(15)}

ResolvedIssues ==
  {Issue(<<>>, c, r) : c \in CreatedHours, r \in ResolvedHours}

RECURSIVE SumOf(_)
SumOf(list) == IF list = <<>> THEN 0 ELSE Head(list) + SumOf(Tail(list))

MeanMutant(list) ==
  IF list = <<>> THEN None
  ELSE Some([sum |-> SumOf(list), count |-> Len(list) + 1])

\* avg = None; if lead_times: avg = sum(lead_times) / len(lead_times).
\* The quotient is kept as its numerator and denominator.
Mean(list) ==
  IF list = <<>> THEN None
  ELSE Some([sum |-> SumOf(list), count |-> Len(list)])

LeadTimeInit ==
  /\ fn = [pc |-> "input", issues |-> <<>>, lead_times |-> <<>>,
           avg_lead_time_hours |-> None]
  /\ tr = Off /\ pg = Off /\ op = Off

ChooseResolved ==
  /\ fn.pc = "input"
  /\ \E issues \in SeqsUpTo(ResolvedIssues, MaxIssues) :
       fn' = [fn EXCEPT !.pc = "chosen", !.issues = issues]
  /\ UNCHANGED <<tr, pg, op>>

AverageLeadTime ==
  /\ fn.pc = "chosen"
  /\ LET lead_times == CalculateLeadTimes(fn.issues)
     IN  fn' = [fn EXCEPT !.pc = "averaged", !.lead_times = lead_times,
                          !.avg_lead_time_hours = Mean(lead_times)]
  /\ UNCHANGED <<tr, pg, op>>

LeadTimeNext == ChooseResolved \/ AverageLeadTime

SpecLeadTime == LeadTimeInit /\ [][LeadTimeNext]_vars

\* The issues of the list that have both timestamps and a non-negative
\* difference, by position.
Survivors ==
  {i \in 1..Len(fn.issues) :
     /\ fn.issues[i].created /= None
     /\ fn.issues[i].resolutiondate /= None
     /\ fn.issues[i].resolutiondate[1] >= fn.issues[i].created[1]}

RECURSIVE SurvivorHours(_)
SurvivorHours(I) ==
  IF I = {} THEN 0
  ELSE LET i == CHOOSE j \in I : TRUE
       IN  (fn.issues[i].resolutiondate[1] - fn.issues[i].created[1])
           + SurvivorHours(I \ {i})

\* C11: the average lead time is the arithmetic mean of resolved - created
\* over exactly the issues with both timestamps and a non-negative
\* difference, the survivor count is their number, and with no such issue
\* there is no average.
LeadTimeAverage ==
  fn.pc = "averaged" =>
    /\ Len(fn.lead_times) = Cardinality(Survivors)
    /\ Survivors = {} <=> fn.avg_lead_time_hours = None
    /\ Survivors /= {} =>
         /\ fn.avg_lead_time_hours[1].count = Cardinality(Survivors)
         /\ fn.avg_lead_time_hours[1].sum = SurvivorHours(Survivors)

\* Lead times of 5 and 15 hours beside an unresolved issue and an issue
\* resolved before its creation: mean 20 / 2.
LeadTimeAverageWitness ==
  /\ fn.pc = "averaged"
  /\ Len(fn.issues) = 3
  /\ \E i \in 1..3 : fn.issues[i].resolutiondate = None
                     \/ (fn.issues[i].created = Some(5)
                         /\ fn.issues[i].resolutiondate = Some(0))
  /\ fn.lead_times = <<5, 15>>
  /\ fn.avg_lead_time_hours = Some([sum |-> 20, count |-> 2])

(***************************************************************************)
(* SpecRatios: the ratios of the analytics results                         *)
(* (mcp_*/analytics_server.py) for any counts up to MaxCount.  A ratio is  *)
(* kept as the fraction handed to round().                                 *)
(***************************************************************************)

MaxCount == 3

Counts == 0..MaxCount

\* n / d in Python: ZeroDivisionError when d is 0.
Quotient(n, d) ==
  IF d = 0 THEN [raises |-> TRUE, num |-> 0, den |-> 1]
  ELSE [raises |-> FALSE, num |-> n, den |-> d]

\* A ratio computed without its guard.
GuardedRatioMutant(n, d) == Quotient(n, d)

\* round(n / d, digits) if d > 0 else 0
GuardedRatio(n, d) ==
  IF d > 0 THEN Quotient(n, d) ELSE [raises |-> FALSE, num |-> 0, den |-> 1]

RatiosInit ==
  /\ fn = [pc |-> "input", tool |-> "none", a |-> 0, b |-> 0, c |-> 0,
           ratios |-> <<>>]
  /\ tr = Off /\ pg = Off /\ op = Off

\* The three counts a result is built from.
ChooseCounts ==
  /\ fn.pc = "input"
  /\ \E a \in Counts, b \in Counts, c \in Counts :
       fn' = [fn EXCEPT !.pc = "chosen", !.a = a, !.b = b, !.c = c]
  /\ UNCHANGED <<tr, pg, op>>

\* issues_assigned a, issues_resolved b, reopened_count c: resolution_rate
\* and quality_score.
JiraRatios ==
  /\ fn.pc = "chosen"
  /\ fn' = [fn EXCEPT !.pc = "built", !.tool = "jira",
              !.ratios = <<[den |-> fn.a, value |-> GuardedRatio(fn.b, fn.a)],
                           [den |-> fn.b,
                            value |-> GuardedRatio(fn.b - fn.c, fn.b)]>>]
  /\ UNCHANGED <<tr, pg, op>>

\* prs_authored a, prs_merged b, reviews_given c: merge_rate and
\* review_participation.
GitHubRatios ==
  /\ fn.pc = "chosen"
  /\ fn' = [fn EXCEPT !.pc = "built", !.tool = "github",
              !.ratios = <<[den |-> fn.a, value |-> GuardedRatio(fn.b, fn.a)],
                           [den |-> fn.a, value |-> GuardedRatio(fn.c, fn.a)]>>]
  /\ UNCHANGED <<tr, pg, op>>

\* pages_created a, pages_updated b, comments_written c: engagement_ratio.
ConfluenceRatios ==
  /\ fn.pc = "chosen"
  /\ fn' = [fn EXCEPT !.pc = "built", !.tool = "confluence",
              !.ratios = <<[den |-> fn.a + fn.b,
                            value |-> GuardedRatio(fn.c, fn.a + fn.b)]>>]
  /\ UNCHANGED <<tr, pg, op>>

RatiosNext == ChooseCounts \/ JiraRatios \/ GitHubRatios \/ ConfluenceRatios

SpecRatios == RatiosInit /\ [][RatiosNext]_vars

\* C17: every ratio of a metrics result is 0 when its denominator count is
\* 0, is the quotient otherwise, and computing it never raises.
RatioGuards ==
  fn.pc = "built" =>
    \A i \in 1..Len(fn.ratios) :
      LET r == fn.ratios[i]
      IN  /\ ~r.value.raises
          /\ r.den = 0 => r.value.num = 0
          /\ r.den > 0 => r.value.den = r.den

\* The tracker result with no assigned issue and two resolved, one of them
\* reopened: resolution_rate 0, quality_score 1/2.
RatioGuardsWitness ==
  /\ fn.pc = "built" /\ fn.tool = "jira"
  /\ fn.a = 0 /\ fn.b = 2 /\ fn.c = 1
  /\ fn.ratios[1].value.num = 0
  /\ fn.ratios[2].value = [raises |-> FALSE, num |-> 1, den |-> 2]

(***************************************************************************)
(* Wiki metric functions: the post-filter of                               *)
(* ConfluenceClient.search_updated_content_by_user and the deduplication   *)
(* of confluence_engineer_activity.                                        *)
(***************************************************************************)

MaxPages == 2

MaxPageId == 3

PageIds == 1..MaxPageId

\* The identities a last-modifier field may hold: the subject's, another
\* user's, or none.
Identities == {None, Some("subject"), Some("other")}

\* A page of a content search: its id and history.lastUpdated.by.
ContentItems == [id : PageIds, email : Identities, accountId : Identities]

\* The ids of a list of pages, as {page.get("id") for page in pages}.
IdsOf(pages) == {pages[i].id : i \in 1..Len(pages)}

\* Result lists of a search: no identity occurs twice.
DistinctIds(pages) ==
  \A i \in 1..Len(pages), j \in 1..Len(pages) :
    pages[i].id = pages[j].id => i = j

UpdatedByUserMutant(content_items) == content_items

\* search_updated_content_by_user, lines 158-173: keep the items whose last
\* modifier's email or account id is the subject.
UpdatedByUser(content_items) ==
  LET ByUser(item) == item.email = Some("subject")
                      \/ item.accountId = Some("subject")
  IN  SelectSeq(content_items, ByUser)

\* A tool that would count every updated page, created by the subject or not.
UpdatedOnlyPagesMutant(created_pages, updated_pages) == updated_pages

\* confluence_engineer_activity: updated_only_pages, the updated pages whose
\* id is not in created_page_ids.
UpdatedOnlyPages(created_pages, updated_pages) ==
  LET created_page_ids == IdsOf(created_pages)
      NotCreated(page) == page.id \notin created_page_ids
  IN  SelectSeq(updated_pages, NotCreated)

\* A page created by the subject (the creator search returns only those).
CreatedPage(id) == [id |-> id, email |-> Some("subject"), accountId |-> None]

CreatedLists ==
  {q \in SeqsUpTo({CreatedPage(id) : id \in PageIds}, MaxPages) : DistinctIds(q)}

ContentLists ==
  {q \in SeqsUpTo(ContentItems, MaxPages) : DistinctIds(q)}

(***************************************************************************)
(* SpecDedup: the created/updated bucket counts of                         *)
(* confluence_engineer_activity for any pair of result lists.              *)
(***************************************************************************)

DedupInit ==
  /\ fn = [pc |-> "input", created_pages |-> <<>>, content_items |-> <<>>,
           updated_pages |-> <<>>,
           updated_only_pages |-> <<>>, pages_created |-> 0,
           pages_updated |-> 0]
  /\ tr = Off /\ pg = Off /\ op = Off

\* The two searches have answered: created_pages, and updated_pages after
\* the last-modifier post-filter.
ChooseResultSets ==
  /\ fn.pc = "input"
  /\ \E created \in CreatedLists, content_items \in ContentLists :
       fn' = [fn EXCEPT !.pc = "chosen", !.created_pages = created,
                        !.content_items = content_items,
                        !.updated_pages = UpdatedByUser(content_items)]
  /\ UNCHANGED <<tr, pg, op>>

CountBuckets ==
  /\ fn.pc = "chosen"
  /\ LET only == UpdatedOnlyPages(fn.created_pages, fn.updated_pages)
     IN  fn' = [fn EXCEPT !.pc = "counted",
                          !.updated_only_pages = only,
                          !.pages_created = Len(fn.created_pages),
                          !.pages_updated = Len(only)]
  /\ UNCHANGED <<tr, pg, op>>

DedupNext == ChooseResultSets \/ CountBuckets

SpecDedup == DedupInit /\ [][DedupNext]_vars

\* C8: pagesUpdated is the number of distinct identities of the updated
\* result set that are not in the created result set, and no identity
\* counted in pagesCreated is counted in pagesUpdated.
Deduplication ==
  fn.pc = "counted" =>
    /\ fn.pages_updated =
         Cardinality(IdsOf(fn.updated_pages) \ IdsOf(fn.created_pages))
    /\ IdsOf(fn.updated_only_pages) \cap IdsOf(fn.created_pages) = {}
    /\ fn.pages_created = Cardinality(IdsOf(fn.created_pages))

\* Created {1, 2} and updated {2, 3}: the updated-only count is 1.
DeduplicationWitness ==
  /\ fn.pc = "counted"
  /\ IdsOf(fn.created_pages) = {1, 2}
  /\ IdsOf(fn.updated_pages) = {2, 3}
  /\ fn.pages_updated = 1

\* The last modifier of the item is the subject, by email or by account id.
BySubject(item) ==
  item.email = Some("subject") \/ item.accountId = Some("subject")

\* C12: every item search_updated_content_by_user returns was last modified
\* by the subject (email or account id), whatever the provider search
\* returned; the items it returns are those of the search that the subject
\* modified last, in the order of the search.
UpdatedBySubjectOnly ==
  fn.pc \in {"chosen", "counted"} =>
    /\ \A i \in 1..Len(fn.updated_pages) : BySubject(fn.updated_pages[i])
    /\ IdsOf(fn.updated_pages) =
         {fn.content_items[i].id : i \in {j \in 1..Len(fn.content_items) :
                                            BySubject(fn.content_items[j])}}
    /\ Len(fn.updated_pages) <= Len(fn.content_items)

\* The search returned a page last modified by someone else and a page last
\* modified by the subject's account id; only the second is returned.
UpdatedBySubjectOnlyWitness ==
  /\ fn.pc = "chosen"
  /\ Len(fn.content_items) = 2 /\ Len(fn.updated_pages) = 1
  /\ fn.content_items[1].email = Some("other")
  /\ fn.content_items[1].accountId = Some("other")
  /\ fn.updated_pages[1].accountId = Some("subject")
  /\ fn.updated_pages[1].email = None

\* The index of the first item at or after i that the loop fetches for (the
\* others are skipped by `continue` without a request), or Len(items) + 1.
RECURSIVE NextFetch(_, _, _)
NextFetch(items, i, closedOnly) ==
  IF i > Len(items) THEN i
  ELSE IF items[i].keyed /\ (closedOnly => items[i].closed) THEN i
  ELSE NextFetch(items, i + 1, closedOnly)

\* The loop moves on from item `from` (0 before the first): it skips to the
\* next item it fetches for, or leaves the loop.
Advance(o, from, closedOnly) ==
  LET j == NextFetch(o.items, from + 1, closedOnly)
  IN  [o EXCEPT !.idx = j, !.skipped = @ + (j - from - 1)]

LoopDone(o) == o.idx > Len(o.items)

\* Filtering of the reviews / review comments of one PR (github_client.py
\* lines 165-171 and 226-232): a note by the subject with a timestamp is
\* parsed and compared with the naive range bounds; an aware timestamp
\* makes the comparison raise TypeError, which nothing in the loop catches.
RECURSIVE GitHubFilter(_, _, _, _)
GitHubFilter(list, i, from_date, to_date) ==
  IF i > Len(list) THEN [raises |-> FALSE, count |-> 0]
  ELSE LET n == list[i]
           rest == GitHubFilter(list, i + 1, from_date, to_date)
       IN  IF n.mine /\ n.at /= None
           THEN IF CompareRaises(n.at[1]) THEN [raises |-> TRUE, count |-> 0]
                ELSE [rest EXCEPT !.count =
                        @ + (IF InRange(from_date, to_date, n.at[1]) THEN 1 ELSE 0)]
           ELSE rest

\* Filtering of the comments of one page (confluence_client.py lines
\* 229-251): as above, but parsing and comparison sit in a try block whose
\* `except Exception` skips the comment.
RECURSIVE ConfluenceFilter(_, _, _, _)
ConfluenceFilter(list, i, from_date, to_date) ==
  IF i > Len(list) THEN 0
  ELSE LET n == list[i]
           rest == ConfluenceFilter(list, i + 1, from_date, to_date)
       IN  IF n.at /= None /\ n.mine /\ ~CompareRaises(n.at[1])
              /\ InRange(from_date, to_date, n.at[1])
           THEN rest + 1
           ELSE rest

(***************************************************************************)
(* SpecFilter: the author/date filter of the review and comment queries    *)
(* applied to the sub-resources of one parent item, for any valid range.   *)
(***************************************************************************)

MaxNotes == 2

ValidDates == {s \in DateStrings : ParseOK(s)}

FilterInit ==
  /\ fn = [pc |-> "input", client |-> "none", from_date |-> TextDate,
           to_date |-> TextDate, list |-> <<>>, raises |-> FALSE, count |-> 0]
  /\ tr = Off /\ pg = Off /\ op = Off

\* A parent item was fetched: its reviews or comments.
ChooseNotes ==
  /\ fn.pc = "input"
  /\ \E f \in ValidDates, t \in ValidDates, list \in SeqsUpTo(Notes, MaxNotes) :
       fn' = [fn EXCEPT !.pc = "chosen", !.from_date = f, !.to_date = t,
                        !.list = list]
  /\ UNCHANGED <<tr, pg, op>>

\* The filter of search_reviews_by_user / get_review_comments_by_user.
FilterReviews ==
  /\ fn.pc = "chosen"
  /\ LET f == GitHubFilter(fn.list, 1, fn.from_date, fn.to_date)
     IN  fn' = [fn EXCEPT !.pc = "filtered", !.client = "GitHub",
                          !.raises = f.raises, !.count = f.count]
  /\ UNCHANGED <<tr, pg, op>>

\* The filter of search_comments_by_user.
FilterComments ==
  /\ fn.pc = "chosen"
  /\ fn' = [fn EXCEPT !.pc = "filtered", !.client = "Confluence",
                      !.count = ConfluenceFilter(fn.list, 1, fn.from_date,
                                                 fn.to_date)]
  /\ UNCHANGED <<tr, pg, op>>

FilterNext == ChooseNotes \/ FilterReviews \/ FilterComments

SpecFilter == FilterInit /\ [][FilterNext]_vars

\* The notes of the list the subject wrote on a calendar day of the range.
OnDaysOfRange ==
  {i \in 1..Len(fn.list) :
     /\ fn.list[i].mine
     /\ fn.list[i].at /= None
     /\ DayOf(fn.from_date) <= fn.list[i].at[1].day
     /\ fn.list[i].at[1].day <= DayOf(fn.to_date)}

\* C13: a review or comment of the subject on a fetched parent item is
\* counted if and only if its timestamp falls on a calendar day of
\* [from, to], both ends included, whatever the time of day, and counting
\* does not make the operation fail.
InclusiveRangeFilter ==
  fn.pc = "filtered" =>
    /\ ~fn.raises
    /\ fn.count = Cardinality(OnDaysOfRange)

\* What the filters do count: the subject's notes, read as naive datetimes,
\* between midnight of from and midnight of to.
MidnightRangeFilter ==
  (fn.pc = "filtered" /\ ~fn.raises) =>
    fn.count = Cardinality({i \in OnDaysOfRange :
                              /\ ~fn.list[i].at[1].aware
                              /\ InRange(fn.from_date, fn.to_date,
                                         fn.list[i].at[1])})

\* A handler that would name the GitHubAPIError of shared.errors instead.
ReviewsCatchMutant(e) == IsInstance(e, "errors.GitHubAPIError")

\* except GitHubAPIError in shared/github_client.py: the class defined in
\* that module.
ReviewsCatch(e) == IsInstance(e, "github_client.GitHubAPIError")

\* except ConfluenceAPIError in shared/confluence_client.py: the class
\* imported from shared.errors.
CommentsCatch(e) == IsInstance(e, "errors.ConfluenceAPIError")

IsReviewQuery(pc) == pc \in {"rv_search", "rv_loop", "rc_search", "rc_loop"}

\* Entry of search_reviews_by_user (kind "rv") and of
\* get_review_comments_by_user (kind "rc") up to the PR search request:
\* get_date_range_query_string parses both dates.
EnterReviews(o, kind) ==
  IF ~ParseOK(o.from_date) \/ ~ParseOK(o.to_date)
  THEN Raise(o, PlainExc("ValueError", None, None), "dates")
  ELSE [o EXCEPT !.pc = IF kind = "rv" THEN "rv_search" ELSE "rc_search",
                 !.items = <<>>, !.idx = 1, !.notes = 0,
                 !.fetched = 0, !.failed = 0, !.skipped = 0]

\* Entry of search_comments_by_user up to the page search request: the CQL
\* is built from the raw date strings.
EnterComments(o) ==
  [o EXCEPT !.pc = "cc_search", !.items = <<>>, !.idx = 1, !.notes = 0,
            !.fetched = 0, !.failed = 0, !.skipped = 0]

\* round(x, 1) for the quotient num / den (den > 0), in tenths: the nearest
\* tenth, a tie going to the even one.
RoundTenths(num, den) ==
  LET n == 10 * num
      fl == n \div den
      rem == n - fl * den
  IN  IF 2 * rem < den THEN fl
      ELSE IF 2 * rem > den THEN fl + 1
      ELSE IF fl % 2 = 0 THEN fl ELSE fl + 1

\* round(avg, 1) if avg else None, and round(avg / 24, 1) if avg else None,
\* for avg = None or Some([sum, count]): None and 0.0 are falsy.
ReportedAverage(avg, hours_per_unit) ==
  IF avg /= None /\ avg[1].sum /= 0
  THEN Some([tenths |-> RoundTenths(avg[1].sum, hours_per_unit * avg[1].count)])
  ELSE None

\* The review/comment query returns its list to its caller, which runs on
\* to its next request or to its end: a direct call ends; the code-host
\* activity tool stores len(reviews) and calls get_review_comments_by_user,
\* or stores len(comments) and returns its result; the wiki activity tool
\* stores len(comments) and returns its result, to which
\* analytics_server.py adds the period in days and the weekly rates; the
\* code-host tool of analytics_server.py reports the rounded averages.
ReturnNotes(o) ==
  CASE o.variant = "client" -> [o EXCEPT !.pc = "returned"]
    [] o.pc \in {"rv_search", "rv_loop"} ->
         EnterReviews([o EXCEPT !.reviews_given = o.notes], "rc")
    [] o.name = "confluence_engineer_activity" /\ o.variant = "analytics" ->
         [o EXCEPT !.comments_written = o.notes, !.pc = "returned",
                   !.period_days = Some(DaysPeriod(o.from_date, o.to_date)),
                   !.weeks_period =
                      Some(WeeksPeriod(DaysPeriod(o.from_date, o.to_date)))]
    [] o.name = "github_engineer_activity" /\ o.variant = "analytics" ->
         [o EXCEPT !.comments_written = o.notes, !.pc = "returned",
                   !.average_hours = ReportedAverage(Mean(o.cycle_times), 1),
                   !.average_days = ReportedAverage(Mean(o.cycle_times), 24)]
    [] OTHER -> [o EXCEPT !.comments_written = o.notes, !.pc = "returned"]

\* After a secondary fetch: next item, or the query returns its list.
Continue(o) ==
  LET n == Advance(o, o.idx, FALSE)
  IN  IF LoopDone(n) THEN ReturnNotes(n) ELSE n

\* The PR search of a review/comment query answers
\* (_paginate_search(..., max_items=50), one page).
ReviewsSearched(kind) ==
  /\ op.pc = (IF kind = "rv" THEN "rv_search" ELSE "rc_search")
  /\ \/ \E resp \in FailureSamples :
          op' = Raise(Answered(op, resp),
                      GitHubMakeRequest(resp).exc, "search")
     \/ \E items \in KeyedLists :
          LET o == [op EXCEPT !.requests = @ + 1, !.items = items,
                              !.pc = IF kind = "rv" THEN "rv_loop" ELSE "rc_loop"]
              n == Advance(o, 0, FALSE)
          IN  op' = IF LoopDone(n) THEN ReturnNotes(n) ELSE n
  /\ UNCHANGED <<tr, pg, fn>>

\* The reviews (or review comments) request for PR op.idx answers.
ReviewsFetched(kind) ==
  /\ op.pc = (IF kind = "rv" THEN "rv_loop" ELSE "rc_loop")
  /\ LET o == [op EXCEPT !.requests = @ + 1]
     IN  \/ \E resp \in FailureSamples :
              LET e == GitHubMakeRequest(resp).exc
                  a == Answered(op, resp)
              IN  op' = IF ReviewsCatch(e)
                        THEN Continue([a EXCEPT !.failed = @ + 1])
                        ELSE Raise(a, e, "secondary")
         \/ \E list \in NoteLists :
              LET f == GitHubFilter(list, 1, op.from_date, op.to_date)
              IN  op' = IF f.raises
                        THEN Raise(o, PlainExc("TypeError", None, None), "filter")
                        ELSE Continue([o EXCEPT !.fetched = @ + 1,
                                                !.notes = @ + f.count])
  /\ UNCHANGED <<tr, pg, fn>>

SearchReviewsSearched == ReviewsSearched("rv")

SearchReviewsFetched == ReviewsFetched("rv")

ReviewCommentsSearched == ReviewsSearched("rc")

ReviewCommentsFetched == ReviewsFetched("rc")

\* The page search of search_comments_by_user answers
\* (_paginate_content(..., max_items=100), one page); then both dates are
\* parsed.
CommentsSearched ==
  /\ op.pc = "cc_search"
  /\ LET o == [op EXCEPT !.requests = @ + 1]
     IN  \/ \E resp \in FailureSamples :
              op' = Raise(Answered(op, resp),
                          ConfluenceMakeRequest(resp).exc, "search")
         \/ \E items \in KeyedLists :
              IF ~ParseOK(op.from_date) \/ ~ParseOK(op.to_date)
              THEN op' = Raise(o, PlainExc("ValueError", None, None), "dates")
              ELSE LET n == Advance([o EXCEPT !.items = items, !.pc = "cc_loop"],
                                    0, FALSE)
                   IN  op' = IF LoopDone(n) THEN ReturnNotes(n) ELSE n
  /\ UNCHANGED <<tr, pg, fn>>

\* The child-comment request for page op.idx answers.
CommentsFetched ==
  /\ op.pc = "cc_loop"
  /\ LET o == [op EXCEPT !.requests = @ + 1]
     IN  \/ \E resp \in FailureSamples :
              LET e == ConfluenceMakeRequest(resp).exc
                  a == Answered(op, resp)
              IN  op' = IF CommentsCatch(e)
                        THEN Continue([a EXCEPT !.failed = @ + 1])
                        ELSE Raise(a, e, "secondary")
         \/ \E list \in NoteLists :
              op' = Continue([o EXCEPT
                       !.fetched = @ + 1,
                       !.notes = @ + ConfluenceFilter(list, 1, op.from_date,
                                                      op.to_date)])
  /\ UNCHANGED <<tr, pg, fn>>

\* A client query is called directly, with any pair of date strings.
CallClient ==
  /\ op.pc = "idle"
  /\ \E name \in {"search_reviews_by_user", "get_review_comments_by_user",
                  "search_comments_by_user"},
        f \in DateStrings, t \in DateStrings :
       LET o == [op EXCEPT !.name = name, !.variant = "client",
                           !.from_date = f, !.to_date = t]
       IN  op' = CASE name = "search_reviews_by_user" -> EnterReviews(o, "rv")
                   [] name = "get_review_comments_by_user" -> EnterReviews(o, "rc")
                   [] OTHER -> EnterComments(o)
  /\ UNCHANGED <<tr, pg, fn>>

(***************************************************************************)
(* The activity tools: github_engineer_activity (mcp_github/server.py,     *)
(* analytics_server.py, server_simple.py), jira_engineer_activity and      *)
(* confluence_engineer_activity (server.py and analytics_server.py of      *)
(* each).  A search that precedes a loop answers with one page.            *)
(***************************************************************************)

GitHubVariants == {"server", "analytics", "simple"}

TrackerVariants == {"server", "analytics"}

\* The answer of get_pr_details: created_at and merged_at (None when the PR
\* is not merged) as hour counts.
Details == [created_at : 1..2, merged_at : {None} \cup {Some(t) : t \in 1..2}]

\* calculate_hours_between(created_at, merged_at)
CycleHours(pr_details) == pr_details.merged_at[1] - pr_details.created_at

\* The detail loop asks only for closed PRs in server.py and
\* server_simple.py, for every PR in analytics_server.py.
ClosedOnly(variant) == variant \in {"server", "simple"}

\* The handlers around get_pr_details: `except GitHubAPIError` names the
\* class of shared.errors in server.py, which adds `except Exception`, and
\* the class of shared.github_client in the two other servers.
DetailsCatch(variant, e) ==
  IF variant = "server"
  THEN IsInstance(e, "errors.GitHubAPIError") \/ IsInstance(e, "Exception")
  ELSE IsInstance(e, "github_client.GitHubAPIError")

\* Issue lists a tracker search may return: none, a reopened issue resolved
\* after its creation, an issue resolved an hour before its creation, an
\* issue resolved at its creation, a pair.
IssueSamples ==
  {<<>>, <<ReopenedIssue>>, <<Issue(<<>>, Some(10), Some(9))>>,
   <<Issue(<<>>, Some(10), Some(10))>>,
   <<ReopenedIssue, Issue(<<>>, Some(10), Some(9))>>}

\* Page lists the wiki searches may return.
CreatedSamples == {<<>>, <<CreatedPage(1)>>, <<CreatedPage(1), CreatedPage(2)>>}

ContentSamples ==
  {<<>>,
   <<[id |-> 2, email |-> Some("subject"), accountId |-> None]>>,
   <<[id |-> 2, email |-> None, accountId |-> Some("subject")],
     [id |-> 3, email |-> Some("subject"), accountId |-> None]>>,
   <<[id |-> 3, email |-> Some("other"), accountId |-> None]>>}

\* A tool that would swallow the failure and return what it has.
PrimaryFailureMutant(o, e) ==
  [o EXCEPT !.primary_failed = TRUE, !.pc = "returned"]

\* A primary search raised e: no handler of the tool swallows it, it reaches
\* the outer handler and the tool raises.
PrimaryFailure(o, e) ==
  [Raise(o, e, "primary") EXCEPT !.primary_failed = TRUE]

\* The tool is called: the input model checks the digit pattern of both
\* dates, then the tool runs to its first request.  Only the code-host
\* client parses the dates before it (get_date_range_query_string).
CallActivity ==
  /\ op.pc = "idle"
  /\ \E name \in {"github_engineer_activity", "jira_engineer_activity",
                  "confluence_engineer_activity"},
        variant \in GitHubVariants, f \in DateStrings, t \in DateStrings :
       /\ name /= "github_engineer_activity" => variant \in TrackerVariants
       /\ LET o == [op EXCEPT !.name = name, !.variant = variant,
                              !.from_date = f, !.to_date = t]
          IN  op' =
                IF ~PatternOK(f) \/ ~PatternOK(t)
                THEN Raise(o,
                           IF name = "github_engineer_activity" /\ variant = "server"
                           THEN Exc("errors.ValidationError", "VALIDATION_ERROR",
                                    None, None, None, None, None, None)
                           ELSE PlainExc("pydantic.ValidationError", None, None),
                           "validate")
                ELSE CASE name = "github_engineer_activity" ->
                            IF ~ParseOK(f) \/ ~ParseOK(t)
                            THEN Raise(o, PlainExc("ValueError", None, None), "dates")
                            ELSE [o EXCEPT !.pc = "gh_prs",
                                           !.created_upper =
                                              Some(DateRangeUpper(t))]
                       [] name = "jira_engineer_activity" ->
                            [o EXCEPT !.pc = "jira_assigned",
                                      !.created_upper = Some(RawUpper(t))]
                       [] OTHER -> [o EXCEPT !.pc = "cf_created",
                                             !.created_upper = Some(RawUpper(t))]
  /\ UNCHANGED <<tr, pg, fn>>

\* After the detail loop: the tool calls search_reviews_by_user.
AfterDetails(o) ==
  IF LoopDone(o) THEN EnterReviews(o, "rv") ELSE o

\* search_prs_by_author answers.
GitHubPrsSearched ==
  /\ op.pc = "gh_prs"
  /\ LET o == [op EXCEPT !.requests = @ + 1]
     IN  \/ \E resp \in FailureSamples :
              op' = PrimaryFailure(Answered(op, resp),
                                   GitHubMakeRequest(resp).exc)
         \/ \E prs \in ItemLists :
              op' = AfterDetails(
                      Advance([o EXCEPT !.items = prs, !.pc = "gh_details",
                                        !.prs_authored = Len(prs)],
                              0, ClosedOnly(op.variant)))
  /\ UNCHANGED <<tr, pg, fn>>

\* get_pr_details for PR op.idx answers.
GitHubDetailsFetched ==
  /\ op.pc = "gh_details"
  /\ LET o == [op EXCEPT !.requests = @ + 1]
         Go(n) == AfterDetails(Advance(n, n.idx, ClosedOnly(op.variant)))
     IN  \/ \E resp \in FailureSamples :
              LET e == GitHubMakeRequest(resp).exc
                  a == Answered(op, resp)
              IN  op' = IF DetailsCatch(op.variant, e)
                        THEN Go([a EXCEPT !.failed = @ + 1,
                                          !.details_failed = @ + 1])
                        ELSE Raise(a, e, "secondary")
         \/ \E pr_details \in Details :
              op' = IF pr_details.merged_at /= None
                    THEN Go([o EXCEPT !.fetched = @ + 1,
                                      !.prs_merged = @ + 1,
                                      !.cycle_times =
                                         Append(@, CycleHours(pr_details))])
                    ELSE Go([o EXCEPT !.fetched = @ + 1])
  /\ UNCHANGED <<tr, pg, fn>>

\* search_issues_assigned_to_user answers.
JiraAssignedSearched ==
  /\ op.pc = "jira_assigned"
  /\ LET o == [op EXCEPT !.requests = @ + 1]
     IN  \/ \E resp \in FailureSamples :
              op' = PrimaryFailure(Answered(op, resp),
                                   JiraMakeRequest(resp).exc)
         \/ \E issues \in IssueSamples :
              op' = [o EXCEPT !.assigned_issues = issues,
                              !.issues_assigned = Len(issues),
                              !.pc = "jira_resolved"]
  /\ UNCHANGED <<tr, pg, fn>>

\* search_issues_resolved_by_user answers; then the metrics are computed.
\* analytics_server.py calls jira_client.count_reopened_issues, a name the
\* client does not define.
JiraResolvedSearched ==
  /\ op.pc = "jira_resolved"
  /\ LET o == [op EXCEPT !.requests = @ + 1]
     IN  \/ \E resp \in FailureSamples :
              op' = PrimaryFailure(Answered(op, resp),
                                   JiraMakeRequest(resp).exc)
         \/ \E issues \in IssueSamples :
              LET n == [o EXCEPT !.issues_resolved = Len(issues)]
              IN  op' = IF op.variant = "analytics"
                        THEN Raise(n, PlainExc("AttributeError", None, None),
                                   "metrics")
                        ELSE [n EXCEPT
                                !.reopened_count =
                                   CountReopenedIssues(op.assigned_issues),
                                !.lead_times = CalculateLeadTimes(issues),
                                !.avg_lead_time_hours =
                                   Mean(CalculateLeadTimes(issues)),
                                !.pc = "returned"]
  /\ UNCHANGED <<tr, pg, fn>>

\* search_content_by_creator answers.
ConfluenceCreatedSearched ==
  /\ op.pc = "cf_created"
  /\ LET o == [op EXCEPT !.requests = @ + 1]
     IN  \/ \E resp \in FailureSamples :
              op' = PrimaryFailure(Answered(op, resp),
                                   ConfluenceMakeRequest(resp).exc)
         \/ \E created \in CreatedSamples :
              op' = [o EXCEPT !.created_pages = created,
                              !.pages_created = Len(created),
                              !.pc = "cf_updated"]
  /\ UNCHANGED <<tr, pg, fn>>

\* search_updated_content_by_user answers: post-filter, deduplication, then
\* the tool calls search_comments_by_user.
ConfluenceUpdatedSearched ==
  /\ op.pc = "cf_updated"
  /\ LET o == [op EXCEPT !.requests = @ + 1]
     IN  \/ \E resp \in FailureSamples :
              op' = PrimaryFailure(Answered(op, resp),
                                   ConfluenceMakeRequest(resp).exc)
         \/ \E content_items \in ContentSamples :
              op' = EnterComments(
                      [o EXCEPT !.pages_updated =
                         Len(UpdatedOnlyPages(op.created_pages,
                                              UpdatedByUser(content_items)))])
  /\ UNCHANGED <<tr, pg, fn>>

Init ==
  /\ op = OpIdle
  /\ tr = Off /\ pg = Off /\ fn = Off

Next ==
  \/ CallClient
  \/ CallActivity
  \/ GitHubPrsSearched
  \/ GitHubDetailsFetched
  \/ JiraAssignedSearched
  \/ JiraResolvedSearched
  \/ ConfluenceCreatedSearched
  \/ ConfluenceUpdatedSearched
  \/ SearchReviewsSearched
  \/ SearchReviewsFetched
  \/ ReviewCommentsSearched
  \/ ReviewCommentsFetched
  \/ CommentsSearched
  \/ CommentsFetched

Spec == Init /\ [][Next]_vars

(***************************************************************************)
(* Properties of the operations.                                           *)
(***************************************************************************)

ActivityTools ==
  {"github_engineer_activity", "jira_engineer_activity",
   "confluence_engineer_activity"}

GitHubOperations ==
  {"github_engineer_activity", "search_reviews_by_user",
   "get_review_comments_by_user"}

\* The operation is suspended on a request it has sent.
InFlight(o) ==
  o.pc \in {"gh_prs", "gh_details", "rv_search", "rv_loop", "rc_search",
            "rc_loop", "cc_search", "cc_loop", "jira_assigned",
            "jira_resolved", "cf_created", "cf_updated"}

\* The number of requests the operation has issued so far.
Issued(o) == o.requests + (IF InFlight(o) THEN 1 ELSE 0)

\* C2: in search_comments_by_user no transport failure of a per-page comment
\* request (a non-2xx status, 429 included, or a connection failure) makes
\* the operation raise: the page is skipped and the loop goes on.
ConfluenceSecondaryIsolation ==
  op.name \in {"search_comments_by_user", "confluence_engineer_activity"} =>
    ~(op.pc = "raised" /\ op.origin = "secondary")

\* C3: in the per-PR loops of the code host (PR detail, reviews, review
\* comments) a transport failure of the request for one PR never makes the
\* operation raise and excludes only that PR: inside a loop every PR before
\* the current one was fetched, failed or skipped for want of a key, the
\* current one is within the list, and at the normal end of the operation
\* every PR of the last loop is accounted for.
GitHubSecondaryIsolation ==
  op.name \in GitHubOperations =>
    /\ ~(op.pc = "raised" /\ op.origin = "secondary")
    /\ op.pc \in {"gh_details", "rv_loop", "rc_loop"} =>
         /\ op.idx \in 1..Len(op.items)
         /\ op.fetched + op.failed + op.skipped = op.idx - 1
    /\ op.pc = "gh_details" =>
         /\ op.details_failed = op.failed
         /\ op.prs_merged <= op.fetched
         /\ Len(op.cycle_times) = op.prs_merged
    /\ op.pc = "returned" =>
         /\ op.fetched + op.failed + op.skipped = Len(op.items)
         /\ op.notes <= op.fetched

\* The tool of server.py returned although a detail request and a review
\* comment request failed; a merged PR and a comment were still counted.
GitHubSecondaryIsolationWitness ==
  /\ op.name = "github_engineer_activity" /\ op.variant = "server"
  /\ op.pc = "returned"
  /\ op.details_failed >= 1 /\ op.prs_merged >= 1
  /\ op.failed >= 1 /\ op.comments_written >= 1

\* C6: once a primary search of an activity tool has failed with a transport
\* error the tool has ended by raising; it never returns a result.
PrimaryFailureFatal ==
  op.primary_failed =>
    /\ op.name \in ActivityTools
    /\ op.pc = "raised" /\ op.origin = "primary"
    /\ op.exc /= NoExc

\* The second primary search of the wiki tool failed, after a created search
\* that returned pages.
PrimaryFailureFatalWitness ==
  /\ op.primary_failed /\ op.pc = "raised"
  /\ op.name = "confluence_engineer_activity"
  /\ op.requests = 2 /\ op.pages_created >= 1

\* C7: an activity tool called with a from_date or to_date that is not a
\* real calendar date in YYYY-MM-DD form has raised and has issued no
\* request.
ValidationPrecedesIO ==
  (/\ op.name \in ActivityTools
   /\ ~IsCalendarDate(op.from_date) \/ ~IsCalendarDate(op.to_date)) =>
    (op.pc = "raised" /\ Issued(op) = 0)

\* C14: in each provider's created-by-subject query the upper bound on the
\* created date is the day after to, so that the whole to day matches.
InclusiveQueryUpperBound ==
  (/\ op.name \in ActivityTools
   /\ op.created_upper /= None
   /\ IsCalendarDate(op.to_date)) =>
    op.created_upper = Some(DayOf(op.to_date) + 1)

\* The code-host query alone has the bound the day after to.
InclusiveQueryUpperBoundGitHub ==
  (op.name = "github_engineer_activity" /\ op.created_upper /= None) =>
    op.created_upper = Some(DayOf(op.to_date) + 1)

\* C16: a tool called with from after to has raised a ValidationError or
\* treats the range as empty: a day count it reports is never negative.
ReversedRange ==
  (/\ op.name \in ActivityTools
   /\ IsCalendarDate(op.from_date) /\ IsCalendarDate(op.to_date)
   /\ DayOf(op.from_date) > DayOf(op.to_date)
   /\ op.pc = "returned") =>
    (op.period_days = None \/ op.period_days[1] >= 0)

\* C10: every value that enters the cycle-time average or the lead-time
\* average is a non-negative hour count.
NonNegativeDurations ==
  /\ \A i \in 1..Len(op.cycle_times) : op.cycle_times[i] >= 0
  /\ \A i \in 1..Len(op.lead_times) : op.lead_times[i] >= 0

\* The lead-time list alone keeps the guard: an issue resolved before its
\* creation is left out of it.
NonNegativeLeadTimes ==
  \A i \in 1..Len(op.lead_times) : op.lead_times[i] >= 0

\* C21: once the provider has answered 429 to a request of a query, a
\* secondary fetch of a loop included, the query issues no further request:
\* it is never again waiting for a response.
RateLimitHonoured ==
  op.rate_limited => ~InFlight(op)

\* The wiki and tracker operations do stop at a 429: their transports raise
\* it as an exception no loop handler names.
RateLimitHonouredElsewhere ==
  (op.rate_limited /\ op.name \notin GitHubOperations) => op.pc = "raised"

\* C25: in the analytics result the reported average is present exactly
\* when at least one duration survived, a mean of 0 included, and it is
\* then the arithmetic mean of the surviving durations (to the tenth the
\* result is rounded to), in hours and in days.
ZeroDurationAverage ==
  (/\ op.name = "github_engineer_activity" /\ op.variant = "analytics"
   /\ op.pc = "returned") =>
    LET count == Len(op.cycle_times)
        sum == SumOf(op.cycle_times)
        Near(tenths, num, den) ==
          /\ 2 * (tenths * den - 10 * num) <= den
          /\ 2 * (10 * num - tenths * den) <= den
    IN  /\ (op.average_hours = None) <=> (count = 0)
        /\ (op.average_days = None) <=> (count = 0)
        /\ op.average_hours /= None =>
             Near(op.average_hours[1].tenths, sum, count)
        /\ op.average_days /= None =>
             Near(op.average_days[1].tenths, sum, 24 * count)

\* What the result does report: the rounded mean when the mean is not 0,
\* nothing otherwise; the survivor count is len(cycle_times).
NonZeroAverageReported ==
  (/\ op.name = "github_engineer_activity" /\ op.variant = "analytics"
   /\ op.pc = "returned") =>
    /\ (op.average_hours = None) <=> (SumOf(op.cycle_times) = 0)
    /\ (op.average_days = None) <=> (SumOf(op.cycle_times) = 0)

\* C26: whenever both searches of the analytics jira_engineer_activity
\* have succeeded the tool returns a result, whose reopened count is
\* _count_reopened_issues of the assigned issues; it does not raise.
JiraAnalyticsReturns ==
  (/\ op.name = "jira_engineer_activity" /\ op.variant = "analytics"
   /\ op.requests = 2 /\ ~op.primary_failed) =>
    /\ op.pc = "returned"
    /\ op.reopened_count = CountReopenedIssues(op.assigned_issues)

\* The tool of server.py, which calls _count_reopened_issues, does return.
JiraServerReturns ==
  (/\ op.name = "jira_engineer_activity" /\ op.variant = "server"
   /\ op.requests = 2 /\ ~op.primary_failed) =>
    /\ op.pc = "returned"
    /\ op.reopened_count = CountReopenedIssues(op.assigned_issues)

\* With every timestamp of the changelog rendered at one UTC offset, text
\* order is instant order and the count is as C9 states.
ReopenedDetectionOneOffset ==
  (fn.pc = "counted"
     /\ \A i \in 1..Len(TestedTransitions), j \in 1..Len(TestedTransitions) :
          TestedTransitions[i].date.off = TestedTransitions[j].date.off)
    => ReopenedDetection

(***************************************************************************)
(* SpecConcurrent: two calls of github_engineer_activity                   *)
(* (mcp_github/analytics_server.py) served by one event loop and one       *)
(* module-level GitHubClient, interleaved at their awaits, from the call   *)
(* to the computation of the average cycle time.  A result page is         *)
(* modelled by its length and by the number of its items that carry the    *)
(* pull_request key (the others are passed over without a request).        *)
(***************************************************************************)

Queries == 1..2

\* max_items: int = 200, the cap search_prs_by_author leaves at its default.
SearchCap == 200

\* What the provider may answer a search request with: an empty page, a
\* short page, a full page; and a detail request with: a PR not merged, a
\* PR merged at its creation, a PR merged an hour later.
SearchPages ==
  {[kind |-> "page", len |-> n, keyed |-> k] :
     n \in {0, 1, PerPage("GitHub", SearchCap)}, k \in {0, 1}}

DetailAnswers ==
  {[kind |-> "details", pr_details |-> x] : x \in {y \in Details : y.created_at = 1}}

Failure == [kind |-> "failure"]

\* The coroutine of one call: where it is suspended, its loop position,
\* the responses it has received, and what it returned.
TaskIdle == [pc |-> "idle", idx |-> 1, seen |-> <<>>, result |-> None]

\* items = []; page = 1 in _paginate_search, and prs_authored, prs_merged = 0,
\* cycle_times = [] in the tool.
NewAccumulators ==
  [items |-> 0, keyed |-> 0, page |-> 1,
   prs_authored |-> 0, prs_merged |-> 0, cycle_times |-> <<>>]

\* A server whose accumulators would be module-level objects.
AccumulatorsOfMutant(q) == 1

\* The accumulators a call works on are local variables of its own
\* coroutine frames: one set per call.
AccumulatorsOf(q) == q

\* return result, after the average of the cycle times.
Finish(t, a) ==
  [t |-> [t EXCEPT !.pc = "returned",
                   !.result = Some([prs_authored |-> a.prs_authored,
                                    prs_merged |-> a.prs_merged,
                                    cycle_times |-> a.cycle_times,
                                    avg_pr_cycle_hours |-> Mean(a.cycle_times)])],
   a |-> a]

\* The paginator returns items[:max_items]; the tool enters its detail
\* loop and runs to the first get_pr_details, or past the loop.
AfterSearch(t, a) ==
  LET b == [a EXCEPT !.prs_authored = Min(a.items, SearchCap),
                     !.prs_merged = 0, !.cycle_times = <<>>]
  IN  IF b.keyed = 0 THEN Finish(t, b)
      ELSE [t |-> [t EXCEPT !.pc = "details", !.idx = 1], a |-> b]

\* The call runs to its first await: the first page request.
StartQuery(t) ==
  [t |-> [t EXCEPT !.pc = "search"], a |-> NewAccumulators]

\* The awaited request is answered by r and the call runs on to its next
\* await, to its return or to its raise.
OnResponse(t, a, r) ==
  LET u == [t EXCEPT !.seen = Append(@, r)]
  IN  CASE t.pc = "search" /\ r.kind = "failure" ->
             [t |-> [u EXCEPT !.pc = "raised"], a |-> a]
        [] t.pc = "search" /\ r.kind = "page" ->
             IF r.len = 0 THEN AfterSearch(u, a)
             ELSE LET b == [a EXCEPT !.items = @ + r.len, !.keyed = @ + r.keyed]
                  IN  IF \/ StopAfterPage(r.len, PerPage("GitHub", SearchCap),
                                          b.items, SearchCap)
                         \/ ~WhileGuard(b.items, SearchCap)
                      THEN AfterSearch(u, b)
                      ELSE [t |-> u, a |-> [b EXCEPT !.page = @ + 1]]
        [] OTHER ->
             LET b == IF r.kind = "details" /\ r.pr_details.merged_at /= None
                      THEN [a EXCEPT !.prs_merged = @ + 1,
                                     !.cycle_times =
                                        Append(@, CycleHours(r.pr_details))]
                      ELSE a
             IN  IF t.idx + 1 > b.keyed THEN Finish(u, b)
                 ELSE [t |-> [u EXCEPT !.idx = @ + 1], a |-> b]

\* The call run alone against the responses of log.
RECURSIVE Replay(_, _, _, _)
Replay(t, a, log, i) ==
  IF i > Len(log) THEN [t |-> t, a |-> a]
  ELSE LET n == OnResponse(t, a, log[i])
       IN  Replay(n.t, n.a, log, i + 1)

RunAlone(log) ==
  LET s0 == StartQuery(TaskIdle)
  IN  Replay(s0.t, s0.a, log, 1)

Suspended(t) == t.pc \in {"search", "details"}

ConcurrentInit ==
  /\ fn = [pc |-> "serving",
           task |-> [q \in Queries |-> TaskIdle],
           acc |-> [q \in Queries |-> NewAccumulators],
           overlapped |-> FALSE]
  /\ tr = Off /\ pg = Off /\ op = Off

\* A client calls the tool: a new coroutine runs to its first await.
CallQuery ==
  /\ \E q \in Queries :
       /\ fn.task[q].pc = "idle"
       /\ LET n == StartQuery(fn.task[q])
          IN  fn' = [fn EXCEPT !.task[q] = n.t,
                               !.acc[AccumulatorsOf(q)] = n.a,
                               !.overlapped =
                                  @ \/ \E o \in Queries : Suspended(fn.task[o])]
  /\ UNCHANGED <<tr, pg, op>>

\* The event loop resumes a call whose request was answered.
ResumeQuery ==
  /\ \E q \in Queries :
       /\ Suspended(fn.task[q])
       /\ \E r \in (IF fn.task[q].pc = "search" THEN SearchPages
                    ELSE DetailAnswers) \cup {Failure} :
            LET n == OnResponse(fn.task[q], fn.acc[AccumulatorsOf(q)], r)
            IN  fn' = [fn EXCEPT !.task[q] = n.t,
                                 !.acc[AccumulatorsOf(q)] = n.a]
  /\ UNCHANGED <<tr, pg, op>>

ConcurrentNext == CallQuery \/ ResumeQuery

SpecConcurrent == ConcurrentInit /\ [][ConcurrentNext]_vars

\* C22: for every interleaving of two concurrent activity queries at their
\* awaits, each query is where it would be, and has returned what it would
\* have returned (or raised), had it run alone against the responses it
\* received: no accumulator is shared between the queries.
QueryIsolation ==
  \A q \in Queries :
    fn.task[q].pc /= "idle" =>
      LET alone == RunAlone(fn.task[q].seen)
      IN  /\ fn.task[q] = alone.t
          /\ fn.task[q].pc = "returned" =>
               /\ fn.task[q].result /= None
               /\ fn.task[q].result[1].prs_authored = alone.a.prs_authored
               /\ fn.task[q].result[1].prs_merged = alone.a.prs_merged
               /\ fn.task[q].result[1].cycle_times = alone.a.cycle_times

\* Both queries ran overlapped and returned different results: the first
\* two pages and two merged PRs, the second a short page and a failed
\* detail request.
QueryIsolationWitness ==
  /\ fn.overlapped
  /\ fn.task[1].pc = "returned" /\ fn.task[2].pc = "returned"
  /\ fn.task[1].result[1].prs_authored = SearchCap
  /\ fn.task[1].result[1].cycle_times = <<0, 1>>
  /\ fn.task[2].result[1].prs_authored = 1
  /\ fn.task[2].result[1].prs_merged = 0
  /\ Len(fn.task[2].seen) = 2

(***************************************************************************)
(* SpecErrors: shared/errors.py, the conversion of an exception to the     *)
(* error mapping sent to the caller.  An exception object is its class,    *)
(* its message (a sequence of text parts), and for the taxonomy its        *)
(* error_code and details; a dict is a set of <<key, value>> pairs with    *)
(* values None or Some(v).                                                 *)
(***************************************************************************)

EmptyDict == {}

\* cls.__name__
ClassName(cls) ==
  CASE cls = "errors.MCPServerError" -> "MCPServerError"
    [] cls = "errors.APIError" -> "APIError"
    [] OTHER -> cls

\* bool(x) for an optional text: None and "" are falsy.
Truthy(x) == x /= None /\ x[1] /= ""

\* bool(x) for an optional number: None and 0 are falsy.
TruthyNumber(x) == x /= None /\ x[1] /= 0

\* MCPServerError.__init__
MCPServerErrorInit(cls, message, error_code, details) ==
  [cls |-> cls, message |-> message,
   error_code |-> IF Truthy(error_code) THEN error_code[1] ELSE ClassName(cls),
   details |-> IF details = None THEN EmptyDict ELSE details[1]]

\* ConfigurationError.__init__
ConfigurationErrorInit(message, missing_config) ==
  MCPServerErrorInit("errors.ConfigurationError", message,
                     Some("CONFIGURATION_ERROR"),
                     Some(IF Truthy(missing_config)
                          THEN {<<"missing_config", missing_config>>}
                          ELSE EmptyDict))

\* ValidationError.__init__
ValidationErrorInit(message, field, value) ==
  MCPServerErrorInit("errors.ValidationError", message,
                     Some("VALIDATION_ERROR"),
                     Some(IF Truthy(field)
                          THEN {<<"field", field>>, <<"value", value>>}
                          ELSE EmptyDict))

\* APIError.__init__, reached through the provider subclasses as well.
APIErrorInit(cls, message, api_name, status_code, response_body) ==
  MCPServerErrorInit(cls, message, Some("API_ERROR"),
                     Some({<<"api_name", Some(api_name)>>,
                           <<"status_code", status_code>>,
                           <<"response_body", response_body>>}))

\* RateLimitError.__init__: the dict entry retry_after is added afterwards.
RateLimitErrorInit(api_name, retry_after) ==
  LET message == IF TruthyNumber(retry_after)
                 THEN <<api_name, " API rate limit exceeded", ". Retry after ",
                        ToString(retry_after[1]), " seconds">>
                 ELSE <<api_name, " API rate limit exceeded">>
      e == APIErrorInit("errors.RateLimitError", message, api_name, Some(429),
                        None)
  IN  [e EXCEPT !.details = @ \cup {<<"retry_after", retry_after>>}]

\* NetworkError.__init__
NetworkErrorInit(message, api_name) ==
  MCPServerErrorInit("errors.NetworkError", message, Some("NETWORK_ERROR"),
                     Some(IF Truthy(api_name) THEN {<<"api_name", api_name>>}
                          ELSE EmptyDict))

\* An exception of a class outside the taxonomy: str(error) is its text.
BuiltinError(cls, text) ==
  [cls |-> cls, message |-> <<text>>, error_code |-> "none",
   details |-> EmptyDict]

\* MCPServerError.to_mcp_error
ToMcpError(error) ==
  [code |-> -32000, message |-> error.message,
   data |-> [error_code |-> error.error_code, details |-> error.details]]

\* A conversion without the branch for ValueError.
HandleMcpErrorMutant(error) ==
  IF IsSubclass(error.cls, "errors.MCPServerError") THEN ToMcpError(error)
  ELSE ToMcpError(MCPServerErrorInit("errors.MCPServerError",
                                     <<"Unexpected error: ">> \o error.message,
                                     None, None))

\* handle_mcp_error
HandleMcpError(error) ==
  IF IsSubclass(error.cls, "errors.MCPServerError") THEN ToMcpError(error)
  ELSE IF IsSubclass(error.cls, "ValueError")
    THEN ToMcpError(ValidationErrorInit(error.message, None, None))
  ELSE ToMcpError(MCPServerErrorInit("errors.MCPServerError",
                                     <<"Unexpected error: ">> \o error.message,
                                     None, None))

Texts == {<<"">>, <<"bad date">>}

OptionalTexts == {None, Some(""), Some("from_date")}

\* The exceptions the conversion is exercised with: every constructor of
\* the taxonomy the servers use, with absent, empty and present arguments,
\* and exceptions of classes outside it.
ErrorSamples ==
  {MCPServerErrorInit("errors.MCPServerError", m, c, dd) :
     m \in Texts, c \in {None, Some(""), Some("CUSTOM")},
     dd \in {None, Some(EmptyDict), Some({<<"hint", Some("retry")>>})}}
  \cup {ConfigurationErrorInit(m, c) : m \in Texts, c \in OptionalTexts}
  \cup {ValidationErrorInit(m, f, v) :
          m \in Texts, f \in OptionalTexts, v \in {None, Some("2024-13-01")}}
  \cup {APIErrorInit(cls, m, IF cls = "errors.JiraAPIError" THEN "Jira" ELSE "GitHub",
                     st, b) :
          cls \in {"errors.APIError", "errors.GitHubAPIError", "errors.JiraAPIError"},
          m \in Texts, st \in {None, Some(500)}, b \in {None, Some("boom")}}
  \cup {RateLimitErrorInit(a, r) :
          a \in Providers, r \in {None, Some(0), Some(1)}}
  \cup {NetworkErrorInit(m, a) : m \in Texts, a \in {None, Some("Confluence")}}
  \cup {BuiltinError(cls, t) :
          cls \in {"ValueError", "pydantic.ValidationError", "TypeError",
                   "AttributeError", "github_client.GitHubAPIError",
                   "jira_client.JiraAPIError", "Exception"},
          t \in {"", "boom"}}

ErrorsInit ==
  /\ fn = [pc |-> "input", error |-> BuiltinError("Exception", ""),
           mcp_error |-> None]
  /\ tr = Off /\ pg = Off /\ op = Off

\* Some code raised an exception.
ChooseError ==
  /\ fn.pc = "input"
  /\ \E e \in ErrorSamples : fn' = [fn EXCEPT !.pc = "raised", !.error = e]
  /\ UNCHANGED <<tr, pg, op>>

\* handle_mcp_error(error)
ConvertError ==
  /\ fn.pc = "raised"
  /\ fn' = [fn EXCEPT !.pc = "converted",
                      !.mcp_error = Some(HandleMcpError(fn.error))]
  /\ UNCHANGED <<tr, pg, op>>

ErrorsNext == ChooseError \/ ConvertError

SpecErrors == ErrorsInit /\ [][ErrorsNext]_vars

\* The error kinds of the taxonomy, and the class name the base class
\* falls back to.
ErrorKinds ==
  {"VALIDATION_ERROR", "CONFIGURATION_ERROR", "API_ERROR", "NETWORK_ERROR",
   "TIMEOUT_ERROR", "CUSTOM", "MCPServerError"}

\* C23: for every exception handle_mcp_error returns a mapping with code
\* -32000, a message and data.error_code naming an error kind; a taxonomy
\* error keeps its own message, error_code and details, and an exception
\* that is a ValueError is converted to the VALIDATION_ERROR kind with its
\* text as message.
ErrorConversion ==
  fn.pc = "converted" =>
    LET e == fn.error
        out == fn.mcp_error[1]
    IN  /\ out.code = -32000
        /\ out.data.error_code \in ErrorKinds
        /\ IsSubclass(e.cls, "errors.MCPServerError") =>
             /\ out.message = e.message
             /\ out.data.error_code = e.error_code
             /\ out.data.details = e.details
        /\ e.cls = "errors.ValidationError" =>
             out.data.error_code = "VALIDATION_ERROR"
        /\ e.cls \in {"ValueError", "pydantic.ValidationError"} =>
             /\ out.data.error_code = "VALIDATION_ERROR"
             /\ out.message = e.message
        /\ (~IsSubclass(e.cls, "errors.MCPServerError")
              /\ ~IsSubclass(e.cls, "ValueError")) =>
             /\ out.data.error_code = "MCPServerError"
             /\ out.message = <<"Unexpected error: ">> \o e.message

\* A ValidationError raised with a field was converted and kept the field.
ErrorConversionWitness ==
  /\ fn.pc = "converted"
  /\ fn.error.cls = "errors.ValidationError"
  /\ <<"field", Some("from_date")>> \in fn.mcp_error[1].data.details
  /\ fn.mcp_error[1].data.error_code = "VALIDATION_ERROR"
  /\ fn.mcp_error[1].code = -32000

(***************************************************************************)
(* SpecFanOut: the requests of one review/comment query, from the          *)
(* paginated search for the parent items (with the cap the query passes)   *)
(* to the end of the per-item loop.  Lists are modelled by their lengths;  *)
(* the first item of a page may lack its key (pull_request / id).          *)
(***************************************************************************)

\* _paginate_search(..., max_items=50) in both code-host queries.
ReviewsCap == 50

\* _paginate_content(..., max_items=100)
CommentsCap == 100

FanOutQueries ==
  {"search_reviews_by_user", "get_review_comments_by_user",
   "search_comments_by_user"}

ClientOf(name) ==
  IF name = "search_comments_by_user" THEN "Confluence" ELSE "GitHub"

CapOf(name) ==
  IF name = "search_comments_by_user" THEN CommentsCap ELSE ReviewsCap

\* A paginator that would return everything it accumulated.
TruncateMutant(items, max_items) == items

\* return items[:max_items]
Truncate(items, max_items) == Min(items, max_items)

\* The handler of the loop catches e and the loop goes on.
LoopCatches(name, e) ==
  IF ClientOf(name) = "GitHub" THEN ReviewsCatch(e) ELSE CommentsCatch(e)

FanOutInit ==
  /\ fn = [pc |-> "idle", name |-> "none", max_items |-> 0, per_page |-> 0,
           items |-> 0, unkeyed |-> 0, parents |-> 0, idx |-> 0,
           searches |-> 0, fetches |-> 0]
  /\ tr = Off /\ pg = Off /\ op = Off

\* The query is called and runs to its first page request.
FanOutCall ==
  /\ fn.pc = "idle"
  /\ \E name \in FanOutQueries :
       fn' = [fn EXCEPT !.pc = "search", !.name = name,
                        !.max_items = CapOf(name),
                        !.per_page = PerPage(ClientOf(name), CapOf(name))]
  /\ UNCHANGED <<tr, pg, op>>

\* The paginator has ended with `items` accumulated: the loop runs over
\* items[:max_items], passing over the items without a key, to its first
\* request or to its end.
EnterLoop(f, items, unkeyed) ==
  LET parents == Truncate(items, f.max_items)
  IN  [f EXCEPT !.items = items, !.unkeyed = unkeyed, !.parents = parents,
                !.idx = unkeyed,
                !.pc = IF unkeyed >= parents THEN "returned" ELSE "loop"]

\* A page request is answered with a page of n items.
FanOutPage ==
  /\ fn.pc = "search"
  /\ \E n \in PageLengths(fn.per_page), k \in {0, 1} :
       /\ k <= n
       /\ LET f == [fn EXCEPT !.searches = @ + 1]
              items == fn.items + n
          IN  fn' = IF \/ n = 0
                       \/ StopAfterPage(n, fn.per_page, items, fn.max_items)
                       \/ ~WhileGuard(items, fn.max_items)
                    THEN EnterLoop(f, items, fn.unkeyed + k)
                    ELSE [f EXCEPT !.items = items, !.unkeyed = @ + k]
  /\ UNCHANGED <<tr, pg, op>>

\* A page request fails: the query raises.
FanOutSearchFails ==
  /\ fn.pc = "search"
  /\ \E resp \in FailureSamples :
       fn' = [fn EXCEPT !.searches = @ + 1, !.pc = "raised"]
  /\ UNCHANGED <<tr, pg, op>>

\* The request for the sub-resources of one parent item is answered, with
\* a list or with a failure: the loop moves on to the next item, the query
\* returns, or a failure the loop does not catch ends it.
FanOutFetch ==
  /\ fn.pc = "loop"
  /\ \E ok \in BOOLEAN, resp \in FailureSamples :
       LET f == [fn EXCEPT !.fetches = @ + 1, !.idx = @ + 1]
       IN  fn' = IF ok \/ LoopCatches(fn.name,
                                      MakeRequest(ClientOf(fn.name), resp).exc)
                 THEN [f EXCEPT !.pc = IF f.idx >= f.parents THEN "returned"
                                       ELSE "loop"]
                 ELSE [f EXCEPT !.pc = "raised"]
  /\ UNCHANGED <<tr, pg, op>>

FanOutNext == FanOutCall \/ FanOutPage \/ FanOutSearchFails \/ FanOutFetch

SpecFanOut == FanOutInit /\ [][FanOutNext]_vars

\* C24: a review/comment query issues at most ceil(cap / page_size) search
\* requests and at most one secondary request per retrieved parent item,
\* of which there are at most cap (50 for the code host, 100 for the wiki):
\* at most 51 requests for search_reviews_by_user and
\* get_review_comments_by_user, at most 102 for search_comments_by_user.
BoundedFanOut ==
  fn.pc /= "idle" =>
    /\ fn.max_items = (IF ClientOf(fn.name) = "GitHub" THEN 50 ELSE 100)
    /\ fn.searches <= CeilDiv(fn.max_items, fn.per_page)
    /\ fn.parents <= fn.max_items
    /\ fn.fetches <= fn.parents
    /\ fn.searches + fn.fetches <=
         (IF ClientOf(fn.name) = "GitHub" THEN 51 ELSE 102)

\* search_comments_by_user returned after two full pages and a comment
\* request for each of 100 pages.
BoundedFanOutWitness ==
  /\ fn.pc = "returned" /\ fn.name = "search_comments_by_user"
  /\ fn.searches = 2 /\ fn.fetches = 100

\* search_reviews_by_user returned after one page of 50 PRs and 50 requests.
BoundedFanOutReviews ==
  /\ fn.pc = "returned" /\ fn.name = "search_reviews_by_user"
  /\ fn.searches = 1 /\ fn.fetches = 50

(***************************************************************************)
(* SpecJiraSearch: JiraClient.search_issues as called by                   *)
(* search_issues_assigned_to_user and search_issues_resolved_by_user,      *)
(* against a tracker that holds any number of matching issues.  Issue      *)
(* lists are modelled by their lengths.                                    *)
(***************************************************************************)

\* The largest number of matching issues the tracker is exercised with.
MaxMatches == 205

\* "maxResults": min(max_results, 100)
JiraMaxResults == 100

\* max_results=200 in both queries.
JiraSearchCap == 200

JiraQueries ==
  {"search_issues_assigned_to_user", "search_issues_resolved_by_user"}

\* The tracker's answer to a search with startAt and maxResults: the
\* matches from startAt on, at most maxResults of them and at most 100.
TrackerPage(matches, startAt, maxResults) ==
  Max(0, Min(matches - startAt, Min(maxResults, JiraMaxResults)))

\* The parameters search_issues sends.
SearchParams(max_results) ==
  [maxResults |-> Min(max_results, JiraMaxResults), startAt |-> 0]

JiraSearchInit ==
  /\ fn = [pc |-> "idle", query |-> "none", matches |-> 0,
           params |-> SearchParams(0), requests |-> 0, issues |-> 0]
  /\ tr = Off /\ pg = Off /\ op = Off

\* A query is called, the tracker holding `matches` matching issues: it
\* builds its JQL and search_issues sends the one request.
JiraSearchCall ==
  /\ fn.pc = "idle"
  /\ \E query \in JiraQueries, matches \in 0..MaxMatches :
       fn' = [fn EXCEPT !.pc = "search", !.query = query, !.matches = matches,
                        !.params = SearchParams(JiraSearchCap)]
  /\ UNCHANGED <<tr, pg, op>>

\* The request is answered: return result.get("issues", []).
JiraSearchAnswered ==
  /\ fn.pc = "search"
  /\ fn' = [fn EXCEPT !.pc = "returned", !.requests = @ + 1,
                      !.issues = TrackerPage(fn.matches, fn.params.startAt,
                                             fn.params.maxResults)]
  /\ UNCHANGED <<tr, pg, op>>

\* The request fails: the JiraAPIError is logged and raised again.
JiraSearchFails ==
  /\ fn.pc = "search"
  /\ \E resp \in FailureSamples :
       fn' = [fn EXCEPT !.pc = "raised", !.requests = @ + 1]
  /\ UNCHANGED <<tr, pg, op>>

JiraSearchNext == JiraSearchCall \/ JiraSearchAnswered \/ JiraSearchFails

SpecJiraSearch == JiraSearchInit /\ [][JiraSearchNext]_vars

\* C27: search_issues_assigned_to_user and search_issues_resolved_by_user
\* return min(matches, 200) issues: all the matching issues when there are
\* at most 200.
JiraSearchCompleteness ==
  fn.pc = "returned" => fn.issues = Min(fn.matches, JiraSearchCap)

\* What the queries return: one page of at most 100 issues, from one
\* request with startAt 0.
JiraSearchFirstPage ==
  fn.pc = "returned" =>
    /\ fn.issues = Min(fn.matches, JiraMaxResults)
    /\ fn.requests = 1 /\ fn.params.startAt = 0

(***************************************************************************)
(* SpecQuality: the completion figures of the analytics                    *)
(* jira_engineer_activity for any assigned and resolved result sets of at  *)
(* most MaxIssues issues.  reopened_count is the value of                  *)
(* _count_reopened_issues on the assigned issues, the function the call    *)
(* of line 111 is written for.                                             *)
(***************************************************************************)

\* An issue resolved five hours after its creation and never reopened.
SettledIssue ==
  Issue(<<[created |-> Some([local |-> 1, off |-> 0]), field |-> "status",
           toString |-> "Done"]>>,
        Some(10), Some(15))

ResultSets == SeqsUpTo({ReopenedIssue, SettledIssue}, MaxIssues)

\* "quality_score": round((issues_resolved - reopened_count) /
\* issues_resolved, 2) if issues_resolved > 0 else 0
QualityScore(issues_resolved, reopened_count) ==
  GuardedRatio(issues_resolved - reopened_count, issues_resolved)

QualityInit ==
  /\ fn = [pc |-> "input", assigned_issues |-> <<>>, resolved_issues |-> <<>>,
           issues_assigned |-> 0, issues_resolved |-> 0, reopened_count |-> 0,
           quality_score |-> None]
  /\ tr = Off /\ pg = Off /\ op = Off

\* The two searches have answered.
ChooseResults ==
  /\ fn.pc = "input"
  /\ \E assigned \in ResultSets, resolved \in ResultSets :
       fn' = [fn EXCEPT !.pc = "searched", !.assigned_issues = assigned,
                        !.resolved_issues = resolved,
                        !.issues_assigned = Len(assigned),
                        !.issues_resolved = Len(resolved)]
  /\ UNCHANGED <<tr, pg, op>>

\* The reopened count of the assigned issues and the quality score.
BuildCompletion ==
  /\ fn.pc = "searched"
  /\ LET reopened_count == CountReopenedIssues(fn.assigned_issues)
     IN  fn' = [fn EXCEPT !.pc = "built", !.reopened_count = reopened_count,
                          !.quality_score =
                             Some(QualityScore(fn.issues_resolved,
                                               reopened_count))]
  /\ UNCHANGED <<tr, pg, op>>

QualityNext == ChooseResults \/ BuildCompletion

SpecQuality == QualityInit /\ [][QualityNext]_vars

\* C29: for every pair of assigned and resolved result sets the quality
\* score (resolved - reopened) / resolved lies in [0, 1]: the reopened
\* count of the formula never exceeds the resolved count.
QualityScoreRange ==
  fn.pc = "built" =>
    LET q == fn.quality_score[1]
    IN  /\ ~q.raises
        /\ 0 <= q.num /\ q.num <= q.den
        /\ fn.issues_resolved > 0 => fn.reopened_count <= fn.issues_resolved

\* The score never exceeds 1, and the reopened count never exceeds the
\* number of assigned issues.
QualityScoreUpperBound ==
  fn.pc = "built" =>
    /\ fn.quality_score[1].num <= fn.quality_score[1].den
    /\ fn.reopened_count <= fn.issues_assigned

====
